---- MODULE Spec2Model ----
(***************************************************************************)
(* A model of the gameplay core of the peer-synchronised shooter: the      *)
(* weapon state machine (src/src/game/weapons.ts), the damage model        *)
(* (computeWeaponDamage, applyDamage) and the part of FpsGame that applies *)
(* incoming damage, kills and respawns the local player.                   *)
(*                                                                         *)
(* Numbers.  Times are integer milliseconds.  The fractional quantities of *)
(* the source are kept exact as scaled integers:                           *)
(*   falloffPerMeter     in thousandths        (0.012 -> 12)               *)
(*   armorPenetration    in hundredths         (0.64  -> 64)               *)
(*   headshotMultiplier  in tenths             (3.8   -> 38)               *)
(*   distance            in decimetres         (5 m   -> 50)               *)
(*   armor               in 1/10000 points     (100   -> 1000000)          *)
(*   health              in 1/1000000 points   (100   -> 100000000)        *)
(* With integer raw damage and these scales every product of applyDamage   *)
(* is an integer, so the arithmetic below is the source's arithmetic       *)
(* without rounding.                                                       *)
(***************************************************************************)
EXTENDS Integers, Sequences, FiniteSets, TLC

VARIABLES
    clock,      \* the value Date.now() returns, in ms
    wpn,        \* weapon harness: the WeaponRuntimeState under test
    wcall,      \* weapon harness: the last call, its argument and its result
    whist,      \* weapon harness: what has happened since the state was made
    ccall,      \* damage harness: the last computeWeaponDamage call
    dstate,     \* damage harness: the DamageState under test
    dcall,      \* damage harness: the last applyDamage call and its result
    game,       \* FpsGame: the fields of the local player's simulation
    scall,      \* spawn harness: the last pickSpawnPoint call and its results
    gcall,      \* FpsGame: the last payload or fire handled, and what it did
    mcall,      \* movement harness: the last stepPlayerMovement call
    hcall       \* FpsGame's helpers: the last findShotHit, pickTeam or
                \* resolveSpawnPoint call and its result

wvars == <<wpn, wcall, whist>>

dvars == <<ccall, dstate, dcall>>

\* the records of the last pickSpawnPoint call and the last network payload
pvars == <<scall, gcall, mcall, hcall>>

vars == <<clock, wpn, wcall, whist, ccall, dstate, dcall, game, pvars>>

----------------------------------------------------------------------------
(* Bounds of the model. *)

\* clock advances per behaviour of the weapon harness
MaxAdvances == 8

\* applyDamage calls per behaviour of the damage harness
MaxHits == 3

\* the largest distance computeWeaponDamage is called with, in decimetres
MaxDistance == 800

\* clock advances per behaviour of the game
MaxGameAdvances == 2

\* damage events applied per behaviour of the game
MaxDamageEvents == 2

\* mouse, key and pointer-lock events that change the game, per behaviour
MaxInputs == 4

\* the largest wave pickSpawnPoint is called with in the spawn harness
MaxWave == 11

\* The pellets of one fire action that may hit; those after them miss.
MaxPelletsHitting == 3

----------------------------------------------------------------------------
(* src/src/game/weapons.ts *)

WEAPON_ORDER == <<"assaultRifle", "shotgun", "pistol">>

WeaponId == {"assaultRifle", "shotgun", "pistol"}

WEAPONS ==
    [ assaultRifle |->
        [ id |-> "assaultRifle", fireIntervalMs |-> 95, reloadMs |-> 2100,
          magSize |-> 30, reserveAmmo |-> 120, pellets |-> 1,
          baseDamage |-> 27, falloffPerMeter |-> 12, armorPenetration |-> 64,
          headshotMultiplier |-> 38, automatic |-> TRUE ],
      shotgun |->
        [ id |-> "shotgun", fireIntervalMs |-> 820, reloadMs |-> 2700,
          magSize |-> 8, reserveAmmo |-> 40, pellets |-> 8,
          baseDamage |-> 12, falloffPerMeter |-> 48, armorPenetration |-> 42,
          headshotMultiplier |-> 18, automatic |-> FALSE ],
      pistol |->
        [ id |-> "pistol", fireIntervalMs |-> 210, reloadMs |-> 1600,
          magSize |-> 15, reserveAmmo |-> 60, pellets |-> 1,
          baseDamage |-> 31, falloffPerMeter |-> 18, armorPenetration |-> 57,
          headshotMultiplier |-> 29, automatic |-> FALSE ] ]

\* reloadingUntil: number | null.  Times are never negative, so -1 is free.
NULL == -1

\* lastShotAt of a new state is -Number.MAX_SAFE_INTEGER (-(2^53 - 1)); the
\* model keeps a value that is as far in the past for every clock reading it
\* meets (now - lastShotAt exceeds every fire interval) and fits TLC's integers.
NEVER_SHOT == -1000000000

createWeaponState(weaponId) ==
    [ weaponId       |-> weaponId,
      ammoInMag      |-> WEAPONS[weaponId].magSize,
      ammoReserve    |-> WEAPONS[weaponId].reserveAmmo,
      lastShotAt     |-> NEVER_SHOT,
      reloadingUntil |-> NULL ]

createInitialWeaponStates ==
    [ id \in WeaponId |-> createWeaponState(id) ]

\* tryFireWeapon with the empty-magazine test moved ahead of the cooldown test.
tryFireWeapon_emptyFirst(state, now) ==
    LET spec == WEAPONS[state.weaponId] IN
    IF state.reloadingUntil # NULL /\ now < state.reloadingUntil
    THEN [ next |-> state, didFire |-> FALSE, reason |-> "reloading" ]
    ELSE IF state.ammoInMag <= 0
    THEN [ next |-> state, didFire |-> FALSE, reason |-> "empty-mag" ]
    ELSE IF now - state.lastShotAt < spec.fireIntervalMs
    THEN [ next |-> state, didFire |-> FALSE, reason |-> "cooldown" ]
    ELSE [ next    |-> [ state EXCEPT !.ammoInMag  = state.ammoInMag - 1,
                                      !.lastShotAt = now ],
           didFire |-> TRUE,
           reason  |-> "fired" ]

\* tryFireWeapon that forgets to stamp lastShotAt when it fires.
tryFireWeapon_noStamp(state, now) ==
    LET spec == WEAPONS[state.weaponId] IN
    IF state.reloadingUntil # NULL /\ now < state.reloadingUntil
    THEN [ next |-> state, didFire |-> FALSE, reason |-> "reloading" ]
    ELSE IF now - state.lastShotAt < spec.fireIntervalMs
    THEN [ next |-> state, didFire |-> FALSE, reason |-> "cooldown" ]
    ELSE IF state.ammoInMag <= 0
    THEN [ next |-> state, didFire |-> FALSE, reason |-> "empty-mag" ]
    ELSE [ next    |-> [ state EXCEPT !.ammoInMag = state.ammoInMag - 1 ],
           didFire |-> TRUE,
           reason  |-> "fired" ]

\* tryFireWeapon without the empty-magazine test.
tryFireWeapon_noEmptyTest(state, now) ==
    LET spec == WEAPONS[state.weaponId] IN
    IF state.reloadingUntil # NULL /\ now < state.reloadingUntil
    THEN [ next |-> state, didFire |-> FALSE, reason |-> "reloading" ]
    ELSE IF now - state.lastShotAt < spec.fireIntervalMs
    THEN [ next |-> state, didFire |-> FALSE, reason |-> "cooldown" ]
    ELSE [ next    |-> [ state EXCEPT !.ammoInMag  = state.ammoInMag - 1,
                                      !.lastShotAt = now ],
           didFire |-> TRUE,
           reason  |-> "fired" ]

tryFireWeapon(state, now) ==
    LET spec == WEAPONS[state.weaponId] IN
    IF state.reloadingUntil # NULL /\ now < state.reloadingUntil
    THEN [ next |-> state, didFire |-> FALSE, reason |-> "reloading" ]
    ELSE IF now - state.lastShotAt < spec.fireIntervalMs
    THEN [ next |-> state, didFire |-> FALSE, reason |-> "cooldown" ]
    ELSE IF state.ammoInMag <= 0
    THEN [ next |-> state, didFire |-> FALSE, reason |-> "empty-mag" ]
    ELSE [ next    |-> [ state EXCEPT !.ammoInMag  = state.ammoInMag - 1,
                                      !.lastShotAt = now ],
           didFire |-> TRUE,
           reason  |-> "fired" ]

\* beginReload that takes "already reloading" to mean isReloading(state, now).
beginReload_untilDeadline(state, now) ==
    LET spec == WEAPONS[state.weaponId] IN
    IF state.reloadingUntil # NULL /\ now < state.reloadingUntil
    THEN state
    ELSE IF state.ammoInMag >= spec.magSize \/ state.ammoReserve <= 0
    THEN state
    ELSE [ state EXCEPT !.reloadingUntil = now + spec.reloadMs ]

beginReload(state, now) ==
    LET spec == WEAPONS[state.weaponId] IN
    IF state.reloadingUntil # NULL
    THEN state
    ELSE IF state.ammoInMag >= spec.magSize \/ state.ammoReserve <= 0
    THEN state
    ELSE [ state EXCEPT !.reloadingUntil = now + spec.reloadMs ]

Min(a, b) == IF a < b THEN a ELSE b

Max(a, b) == IF a > b THEN a ELSE b

\* tickReload that fills the magazine without capping the refill at the reserve.
tickReload_noCap(state, now) ==
    LET spec == WEAPONS[state.weaponId] IN
    IF state.reloadingUntil = NULL \/ now < state.reloadingUntil
    THEN state
    ELSE LET refill == spec.magSize - state.ammoInMag
         IN  [ state EXCEPT !.ammoInMag      = state.ammoInMag + refill,
                            !.ammoReserve    = state.ammoReserve - refill,
                            !.reloadingUntil = NULL ]

\* tickReload that fills the magazine and leaves the reserve as it is.
tickReload_reserveKept(state, now) ==
    LET spec == WEAPONS[state.weaponId] IN
    IF state.reloadingUntil = NULL \/ now < state.reloadingUntil
    THEN state
    ELSE LET missing == spec.magSize - state.ammoInMag
             refill == Min(missing, state.ammoReserve)
         IN  [ state EXCEPT !.ammoInMag      = state.ammoInMag + refill,
                            !.reloadingUntil = NULL ]

\* tickReload that still waits at the deadline itself (<= for <).
tickReload_lateByOne(state, now) ==
    LET spec == WEAPONS[state.weaponId] IN
    IF state.reloadingUntil = NULL \/ now <= state.reloadingUntil
    THEN state
    ELSE LET missing == spec.magSize - state.ammoInMag
             refill  == Min(missing, state.ammoReserve)
         IN  [ state EXCEPT !.ammoInMag      = state.ammoInMag + refill,
                            !.ammoReserve    = state.ammoReserve - refill,
                            !.reloadingUntil = NULL ]

tickReload(state, now) ==
    LET spec == WEAPONS[state.weaponId] IN
    IF state.reloadingUntil = NULL \/ now < state.reloadingUntil
    THEN state
    ELSE LET missing == spec.magSize - state.ammoInMag
             refill  == Min(missing, state.ammoReserve)
         IN  [ state EXCEPT !.ammoInMag      = state.ammoInMag + refill,
                            !.ammoReserve    = state.ammoReserve - refill,
                            !.reloadingUntil = NULL ]

\* isReloading that takes a pending deadline for a reload in progress.
isReloading_untilCleared(state, now) ==
    state.reloadingUntil # NULL

isReloading(state, now) ==
    state.reloadingUntil # NULL /\ now < state.reloadingUntil

----------------------------------------------------------------------------
(* src/unnamed/part_001: the damage model *)

\* Full health and full armor (100 points) in the model's units.
FULL_HEALTH == 100000000

\* NaN, the value of arithmetic on undefined: a number apart from all the
\* numbers of the model, which no comparison is true of.
NaN == -2000000000

FULL_ARMOR == 1000000

\* clamp that leaves every value as it is.
clamp_unbounded(value, min, max) == value

clamp(value, min, max) ==
    IF value < min THEN min
    ELSE IF value > max THEN max
    ELSE value

\* Math.round of num / den (den > 0): the nearest integer, a half going up.
MathRound(num, den) == (2 * num + den) \div (2 * den)

\* computeWeaponDamage without the minimum scale of 0.28.
computeWeaponDamage_noMinimumScale(weaponId, distance, isHeadshot) ==
    LET spec == WEAPONS[weaponId]
        scaled == 10000 - distance * spec.falloffPerMeter
        headshotScale == IF isHeadshot THEN spec.headshotMultiplier ELSE 10
    IN  Max(1, MathRound(spec.baseDamage * scaled * headshotScale, 100000))

\* distance in decimetres; scaled in 1/10000; headshotScale in tenths.
computeWeaponDamage(weaponId, distance, isHeadshot) ==
    LET spec == WEAPONS[weaponId]
        minimumScale == 2800
        scaled == Max(minimumScale, 10000 - distance * spec.falloffPerMeter)
        headshotScale == IF isHeadshot THEN spec.headshotMultiplier ELSE 10
    IN  Max(1, MathRound(spec.baseDamage * scaled * headshotScale, 100000))

\* applyDamage without the floors at 0.
applyDamage_noFloor(state, rawDamage, armorPenetration) ==
    LET armorBlockScale == clamp(100 - armorPenetration, 0, 100)
        armorToSpend == Min(state.armor, rawDamage * armorBlockScale * 65)
        healthDamage == rawDamage * 1000000 - armorToSpend * 55
        nextArmor == state.armor - armorToSpend
        nextHealth == state.health - healthDamage
    IN  [ health        |-> nextHealth,
          armor         |-> nextArmor,
          damageApplied |-> state.health - nextHealth,
          isEliminated  |-> nextHealth <= 0 ]

\* applyDamage with the two factors 0.65 and 0.55 exchanged.
applyDamage_swapped(state, rawDamage, armorPenetration) ==
    LET armorBlockScale == clamp(100 - armorPenetration, 0, 100)
        armorToSpend == Min(state.armor, rawDamage * armorBlockScale * 55)
        healthDamage == rawDamage * 1000000 - armorToSpend * 65
        nextArmor == Max(0, state.armor - armorToSpend)
        nextHealth == Max(0, state.health - healthDamage)
    IN  [ health        |-> nextHealth,
          armor         |-> nextArmor,
          damageApplied |-> state.health - nextHealth,
          isEliminated  |-> nextHealth <= 0 ]

\* rawDamage in points, armorPenetration in hundredths, state.armor and
\* armorToSpend in 1/10000 points, state.health and healthDamage in
\* 1/1000000 points.
\* A raw damage that is not a number (a damage event without its damage
\* field gives undefined) makes every product, Math.min and Math.max NaN,
\* and NaN <= 0 is false; so does an armor or a health that is NaN already.
applyDamage(state, rawDamage, armorPenetration) ==
    LET armorBlockScale == clamp(100 - armorPenetration, 0, 100)
        armorToSpend == Min(state.armor, rawDamage * armorBlockScale * 65)
        healthDamage == rawDamage * 1000000 - armorToSpend * 55
        nextArmor == Max(0, state.armor - armorToSpend)
        nextHealth == Max(0, state.health - healthDamage)
    IN  IF rawDamage = NaN \/ state.armor = NaN
        THEN [ health |-> NaN, armor |-> NaN, damageApplied |-> NaN,
               isEliminated |-> FALSE ]
        ELSE IF state.health = NaN
        THEN [ health |-> NaN, armor |-> nextArmor, damageApplied |-> NaN,
               isEliminated |-> FALSE ]
        ELSE [ health        |-> nextHealth,
               armor         |-> nextArmor,
               damageApplied |-> state.health - nextHealth,
               isEliminated  |-> nextHealth <= 0 ]

----------------------------------------------------------------------------
(* src/unnamed/part_001: the spawn selector.  A string is the sequence of  *)
(* its UTF-16 code units (what charCodeAt returns); a length is in         *)
(* millimetres, so that every coordinate of the arena is an integer.       *)

\* `${wave}` for a wave >= 0: the decimal digits, '0' being code unit 48.
RECURSIVE NumberToString(_)
NumberToString(n) ==
    IF n < 10 THEN << 48 + n >>
    ELSE NumberToString(n \div 10) \o << 48 + (n % 10) >>

\* One round of hashString's loop: hash = (hash << 5) - hash + charCode, then
\* hash |= 0, that is 31 * hash + charCode wrapped to a signed 32-bit
\* integer.  The product is formed on the two 16-bit halves of the hash, so
\* that no intermediate value leaves the 32 bits.
hashStep(hash, charCode) ==
    LET lo == hash % 65536
        hi == (hash \div 65536) % 65536
        low == 31 * lo + charCode
        high == (31 * hi + (low \div 65536)) % 65536
    IN  (IF high >= 32768 THEN high - 65536 ELSE high) * 65536 + (low % 65536)

\* A signed 32-bit integer: its upper half is a signed 16-bit integer.
IsInt32(value) == (value \div 65536) \in -32768 .. 32767

\* -2^31, the most negative signed 32-bit integer.
IsMostNegative(value) == value < 0 /\ value + 2147483647 = -1

\* The loop of hashString: index runs over the code units (from 1 here),
\* hash is the 32-bit integer the rounds before have left; next is the
\* value this round leaves, computed once before the following round.
RECURSIVE hashLoop(_, _, _)
hashLoop(input, index, hash) ==
    IF index > Len(input)
    THEN hash
    ELSE CHOOSE result \in { hashLoop(input, index + 1, next) :
                                next \in { hashStep(hash, input[index]) } } : TRUE

\* text is the string, taken as a value once.
hashString(input) ==
    CHOOSE hash \in { hashLoop(text, 1, 0) : text \in { input } } : TRUE

\* Math.abs(hash) % length.  Math.abs is taken on a double, so for the most
\* negative hash, -2^31, it is 2^31 (which a 32-bit integer cannot hold):
\* for a negative hash the remainder is formed from -(hash + 1), which is
\* Math.abs(hash) - 1.
AbsRemainder(hash, length) ==
    IF hash >= 0 THEN hash % length
    ELSE (((-(hash + 1)) % length) + 1) % length

\* What indexing a list outside its bounds gives (undefined): no spawn point.
NoSpawnPoint == [ x |-> 0, y |-> -1, z |-> 0 ]

\* pickSpawnPoint with the absolute value taken in 32-bit integers, where the
\* most negative hash is its own absolute value and the remainder of a
\* negative number is not positive.
pickSpawnPoint_int32Abs(matchCode, playerName, spawnPoints, wave) ==
    IF Len(spawnPoints) = 0
    THEN [ x |-> 0, y |-> 0, z |-> 0 ]
    ELSE LET seed == matchCode \o << 58 >> \o playerName \o << 58 >>
                         \o NumberToString(wave)
             hash == hashString(seed)
         IN  IF IsMostNegative(hash)
             THEN NoSpawnPoint
             ELSE spawnPoints[AbsRemainder(hash, Len(spawnPoints)) + 1]

\* The seed is `${matchCode}:${playerName}:${wave}`, ':' being code unit 58.
\* Sequences are indexed from 1.
pickSpawnPoint(matchCode, playerName, spawnPoints, wave) ==
    IF Len(spawnPoints) = 0
    THEN [ x |-> 0, y |-> 0, z |-> 0 ]
    ELSE LET seed == matchCode \o << 58 >> \o playerName \o << 58 >>
                         \o NumberToString(wave)
             hash == hashString(seed)
         IN  spawnPoints[AbsRemainder(hash, Len(spawnPoints)) + 1]

----------------------------------------------------------------------------
(* src/unnamed/part_001: the player's body.  Lengths are in mm, speeds in  *)
(* mm/s, accelerations in mm/s^2, dt in ms; the yaw is an angle in whole   *)
(* degrees whose cosine and sine are kept in units of 1/10000.  Every      *)
(* product is rounded to the unit of its result.                           *)

PLAYER_RADIUS == 340

PLAYER_HEIGHT_STANDING == 1720

PLAYER_HEIGHT_CROUCHING == 1240

WALK_SPEED == 5600

SPRINT_SPEED == 8800

CROUCH_SPEED == 3200

ACCELERATION == 48000

FRICTION == 32000

GRAVITY == 26000

JUMP_VELOCITY == 8900

Abs(value) == IF value < 0 THEN -value ELSE value

MathSign(value) == IF value > 0 THEN 1 ELSE IF value < 0 THEN -1 ELSE 0

\* Math.cos and Math.sin of a yaw of whole degrees, in 1/10000.
MathCos(yaw) ==
    CASE yaw = 0   -> 10000  [] yaw = 37  -> 7986   [] yaw = 45  -> 7071
      [] yaw = 90  -> 0      [] yaw = 135 -> -7071  [] yaw = 180 -> -10000
      [] yaw = 225 -> -7071  [] yaw = 270 -> 0      [] yaw = 315 -> 7071

MathSin(yaw) ==
    CASE yaw = 0   -> 0      [] yaw = 37  -> 6018   [] yaw = 45  -> 7071
      [] yaw = 90  -> 10000  [] yaw = 135 -> 7071   [] yaw = 180 -> 0
      [] yaw = 225 -> -7071  [] yaw = 270 -> -10000 [] yaw = 315 -> -7071

\* The largest root with root * root <= square, between low and high.
RECURSIVE SquareRoot(_, _, _)
SquareRoot(square, low, high) ==
    IF low >= high
    THEN low
    ELSE LET middle == (low + high + 1) \div 2
         IN  IF middle * middle <= square
             THEN SquareRoot(square, middle, high)
             ELSE SquareRoot(square, low, middle - 1)

\* Math.hypot of two values of at most 20000 each in size.
MathHypot(x, z) == SquareRoot(x * x + z * z, 0, 30000)

approach(current, target, maxDelta) ==
    IF Abs(target - current) <= maxDelta
    THEN target
    ELSE current + MathSign(target - current) * maxDelta

Number(flag) == IF flag THEN 1 ELSE 0

\* One obstacle of resolveHorizontalCollisions' loop, for a variant that
\* pushes the player to the obstacle's own side instead of the side of the
\* footprint inflated by the radius.
resolveObstacle_bareSide(current, playerHeight, obstacle) ==
    LET position == current.position
        velocity == current.velocity
        playerBottom == position.y
        playerTop == playerBottom + playerHeight
        overlapsVertically ==
            playerBottom < obstacle.max.y /\ playerTop > obstacle.min.y
        expandedMinX == obstacle.min.x - PLAYER_RADIUS
        expandedMaxX == obstacle.max.x + PLAYER_RADIUS
        expandedMinZ == obstacle.min.z - PLAYER_RADIUS
        expandedMaxZ == obstacle.max.z + PLAYER_RADIUS
        distanceToLeft == Abs(position.x - expandedMinX)
        distanceToRight == Abs(expandedMaxX - position.x)
        distanceToBack == Abs(position.z - expandedMinZ)
        distanceToFront == Abs(expandedMaxZ - position.z)
        minDistance == Min(Min(distanceToLeft, distanceToRight),
                           Min(distanceToBack, distanceToFront))
    IN  IF ~overlapsVertically
        THEN current
        ELSE IF \/ position.x <= expandedMinX
                \/ position.x >= expandedMaxX
                \/ position.z <= expandedMinZ
                \/ position.z >= expandedMaxZ
        THEN current
        ELSE IF minDistance = distanceToLeft
        THEN [ position |-> [ position EXCEPT !.x = obstacle.min.x ],
               velocity |-> [ velocity EXCEPT !.x = Min(velocity.x, 0) ] ]
        ELSE IF minDistance = distanceToRight
        THEN [ position |-> [ position EXCEPT !.x = obstacle.max.x ],
               velocity |-> [ velocity EXCEPT !.x = Max(velocity.x, 0) ] ]
        ELSE IF minDistance = distanceToBack
        THEN [ position |-> [ position EXCEPT !.z = obstacle.min.z ],
               velocity |-> [ velocity EXCEPT !.z = Min(velocity.z, 0) ] ]
        ELSE [ position |-> [ position EXCEPT !.z = obstacle.max.z ],
               velocity |-> [ velocity EXCEPT !.z = Max(velocity.z, 0) ] ]

\* One obstacle of resolveHorizontalCollisions' loop: current is the
\* position and the velocity so far.
resolveObstacle(current, playerHeight, obstacle) ==
    LET position == current.position
        velocity == current.velocity
        playerBottom == position.y
        playerTop == playerBottom + playerHeight
        overlapsVertically ==
            playerBottom < obstacle.max.y /\ playerTop > obstacle.min.y
        expandedMinX == obstacle.min.x - PLAYER_RADIUS
        expandedMaxX == obstacle.max.x + PLAYER_RADIUS
        expandedMinZ == obstacle.min.z - PLAYER_RADIUS
        expandedMaxZ == obstacle.max.z + PLAYER_RADIUS
        distanceToLeft == Abs(position.x - expandedMinX)
        distanceToRight == Abs(expandedMaxX - position.x)
        distanceToBack == Abs(position.z - expandedMinZ)
        distanceToFront == Abs(expandedMaxZ - position.z)
        minDistance == Min(Min(distanceToLeft, distanceToRight),
                           Min(distanceToBack, distanceToFront))
    IN  IF ~overlapsVertically
        THEN current
        ELSE IF \/ position.x <= expandedMinX
                \/ position.x >= expandedMaxX
                \/ position.z <= expandedMinZ
                \/ position.z >= expandedMaxZ
        THEN current
        ELSE IF minDistance = distanceToLeft
        THEN [ position |-> [ position EXCEPT !.x = expandedMinX ],
               velocity |-> [ velocity EXCEPT !.x = Min(velocity.x, 0) ] ]
        ELSE IF minDistance = distanceToRight
        THEN [ position |-> [ position EXCEPT !.x = expandedMaxX ],
               velocity |-> [ velocity EXCEPT !.x = Max(velocity.x, 0) ] ]
        ELSE IF minDistance = distanceToBack
        THEN [ position |-> [ position EXCEPT !.z = expandedMinZ ],
               velocity |-> [ velocity EXCEPT !.z = Min(velocity.z, 0) ] ]
        ELSE [ position |-> [ position EXCEPT !.z = expandedMaxZ ],
               velocity |-> [ velocity EXCEPT !.z = Max(velocity.z, 0) ] ]

\* obstacleList is the array in its order; index the loop's position in it.
RECURSIVE resolveLoop(_, _, _, _)
resolveLoop(current, playerHeight, obstacleList, index) ==
    IF index > Len(obstacleList)
    THEN current
    ELSE resolveLoop(resolveObstacle(current, playerHeight, obstacleList[index]),
                     playerHeight, obstacleList, index + 1)

resolveHorizontalCollisions(position, velocity, playerHeight, obstacleList) ==
    resolveLoop([ position |-> position, velocity |-> velocity ],
                playerHeight, obstacleList, 1)

stepPlayerMovement(state, input, dt, obstacleList, bounds) ==
    LET desiredCrouch == input.crouch
        speed == IF desiredCrouch
                 THEN CROUCH_SPEED
                 ELSE IF input.sprint /\ input.moveForward /\ ~input.moveBackward
                 THEN SPRINT_SPEED
                 ELSE WALK_SPEED
        localX == Number(input.moveRight) - Number(input.moveLeft)
        localZ == Number(input.moveForward) - Number(input.moveBackward)
        cosYaw == MathCos(state.yaw)
        sinYaw == MathSin(state.yaw)
        worldX == localX * cosYaw - localZ * sinYaw
        worldZ == (-localX) * sinYaw - localZ * cosYaw
        wishLength == MathHypot(worldX, worldZ)
        targetX == MathRound(worldX * speed, wishLength)
        targetZ == MathRound(worldZ * speed, wishLength)
        accelerated == MathRound(ACCELERATION * dt, 1000)
        slowed == MathRound(FRICTION * dt, 1000)
        nextVelocityX == IF wishLength > 0
                         THEN approach(state.velocity.x, targetX, accelerated)
                         ELSE approach(state.velocity.x, 0, slowed)
        nextVelocityZ == IF wishLength > 0
                         THEN approach(state.velocity.z, targetZ, accelerated)
                         ELSE approach(state.velocity.z, 0, slowed)
        jumps == state.grounded /\ input.jump /\ ~desiredCrouch
        movedVelocityY == IF jumps
                          THEN JUMP_VELOCITY
                          ELSE state.velocity.y - MathRound(GRAVITY * dt, 1000)
        movedY == state.position.y + MathRound(movedVelocityY * dt, 1000)
        landed == movedY < bounds.floorY
        nextVelocityY == IF landed THEN 0 ELSE movedVelocityY
        nextGrounded == IF landed THEN TRUE
                        ELSE IF jumps THEN FALSE ELSE state.grounded
        nextPosition ==
            [ x |-> clamp(state.position.x + MathRound(nextVelocityX * dt, 1000),
                          bounds.minX + PLAYER_RADIUS,
                          bounds.maxX - PLAYER_RADIUS),
              y |-> IF landed THEN bounds.floorY ELSE movedY,
              z |-> clamp(state.position.z + MathRound(nextVelocityZ * dt, 1000),
                          bounds.minZ + PLAYER_RADIUS,
                          bounds.maxZ - PLAYER_RADIUS) ]
        playerHeight == IF desiredCrouch
                        THEN PLAYER_HEIGHT_CROUCHING
                        ELSE PLAYER_HEIGHT_STANDING
        collisionResult ==
            resolveHorizontalCollisions(
                nextPosition,
                [ x |-> nextVelocityX, y |-> nextVelocityY, z |-> nextVelocityZ ],
                playerHeight, obstacleList)
    IN  [ state EXCEPT !.position  = collisionResult.position,
                       !.velocity  = collisionResult.velocity,
                       !.grounded  = nextGrounded,
                       !.crouching = desiredCrouch ]

----------------------------------------------------------------------------
(* src/unnamed/part_000: FpsGame, the local player.  The fields are kept   *)
(* in one record, game, so that a handler is an operator from the record   *)
(* before it to the record after it and a handler that calls another is    *)
(* their composition.  Every Date.now() read by one handler is one reading *)
(* of clock.  Rendering, audio, the HUD and the player's body (velocity,   *)
(* view) are not part of the record; position is where the player spawns.  *)

\* A clock reading at which the page is loaded; Date.now() is far above the
\* 45 ms presence interval, so the first publication is never held back.
PAGE_LOADED_AT == 1000

isWeaponId(value) ==
    value = "assaultRifle" \/ value = "shotgun" \/ value = "pistol"

\* "DUST-SIM"
DEFAULT_MATCH_CODE == << 68, 85, 83, 84, 45, 83, 73, 77 >>

\* "Operator", the player name of an empty name field
DEFAULT_PLAYER_NAME == << 79, 112, 101, 114, 97, 116, 111, 114 >>

Point(x, y, z) == [ x |-> x, y |-> y, z |-> z ]

\* FpsGame.spawnPoints, the arena's spawn points (metres in the source).
arenaSpawnPoints ==
    << Point(-8000, 0, -10000), Point(8000, 0, -10000),
       Point(-8000, 0, 10000),  Point(8000, 0, 10000),
       Point(-14000, 0, 0),     Point(14000, 0, 0),
       Point(0, 0, -16000),     Point(0, 0, 16000),
       Point(-16000, 0, -8000), Point(16000, 0, 8000),
       Point(-16000, 0, 8000),  Point(16000, 0, -8000) >>

\* addInvisibleCollider: the box of the given size centred at (x, y, z).
Collider(width, height, depth, x, y, z) ==
    [ min |-> Point(x - width \div 2, y - height \div 2, z - depth \div 2),
      max |-> Point(x + width \div 2, y + height \div 2, z + depth \div 2) ]

\* addCrateStack: a crate, and a second one on top where x + z (whole
\* metres) is even; both are blocks that collide.
addCrateStack(x, z) ==
    { Collider(2300, 2300, 2300, x, 1150, z) }
    \cup ( IF ((x + z) \div 1000) % 2 = 0
           THEN { Collider(2050, 2050, 2050, x + 680, 3280, z - 280) }
           ELSE {} )

addBarrelCluster(x, z) ==
    { Collider(1140, 1350, 1140, x, 675, z),
      Collider(1140, 1350, 1140, x + 950, 675, z + 200) }

\* FpsGame.obstacles as buildFallbackArena leaves it: the colliders of the
\* perimeter, the mid lane bowl, the bomb sites, the lane walls, the stairs,
\* the crate stacks and the barrel clusters (blocks added with
\* isCollider = false are not obstacles).  The code that tests a spawn point
\* reads them in no particular order, so they are kept as a set.
obstacles ==
    { Collider(64000, 5800, 1800, 0, 2900, -31000),
      Collider(64000, 5800, 1800, 0, 2900, 31000),
      Collider(1800, 5800, 64000, -31000, 2900, 0),
      Collider(1800, 5800, 64000, 31000, 2900, 0),
      Collider(12400, 2800, 3400, 0, 1400, -6400),
      Collider(12400, 2800, 3400, 0, 1400, 6400),
      Collider(3400, 2800, 12400, -6400, 1400, 0),
      Collider(3400, 2800, 12400, 6400, 1400, 0),
      Collider(4800, 2600, 4800, 0, 1300, 0) }
    \cup { Collider(8800, 3000, 6800, x, 1500, z) :
              x \in { -20000, 20000 }, z \in { -10000, 10000 } }
    \cup { Collider(2600, 3700, 7800, x, 1850, z) :
              x \in { -12000, 12000 }, z \in { -16000, 16000 } }
    \cup { Collider(2600, 3700, 7800, x, 1850, z) :
              x \in { -6000, 6000 }, z \in { -20000, 20000 } }
    \cup UNION { { Collider(3100, 380, 1300, -24000 + step * 1120,
                            200 + step * 380, z),
                   Collider(3100, 380, 1300, 24000 - step * 1120,
                            200 + step * 380, z) } :
                 step \in 0 .. 4, z \in { -840, 840 } }
    \cup UNION { addCrateStack(x, z) :
                 x \in { -18000, 18000 }, z \in { -14000, 14000 } }
    \cup UNION { addCrateStack(x, z) :
                 x \in { -8000, 8000 }, z \in { -18000, 18000 } }
    \cup UNION { addCrateStack(x, z) :
                 x \in { -4000, 4000 }, z \in { -9000, 9000 } }
    \cup addCrateStack(-22000, 0) \cup addCrateStack(22000, 0)
    \cup UNION { addBarrelCluster(x, z) :
                 x \in { -14000, 14000 }, z \in { -2000, 2000 } }
    \cup addBarrelCluster(0, -15000) \cup addBarrelCluster(0, 15000)
    \cup addBarrelCluster(-22000, -8000) \cup addBarrelCluster(22000, 8000)

\* point is the spawn point, taken as a value once.
isSpawnSafe(spawn) ==
    \E point \in { spawn } :
        LET radius == 650
            feetY == point.y
            headY == point.y + PLAYER_HEIGHT_STANDING
        IN  \A obstacle \in obstacles :
                LET overlapsVertical ==
                        feetY < obstacle.max.y /\ headY > obstacle.min.y
                IN  \/ ~overlapsVertical
                    \/ point.x + radius <= obstacle.min.x
                    \/ point.x - radius >= obstacle.max.x
                    \/ point.z + radius <= obstacle.min.z
                    \/ point.z - radius >= obstacle.max.z

\* The places in the arena's list of the spawn points that are safe.
safeSpawnPoints ==
    { i \in 1 .. Len(arenaSpawnPoints) : isSpawnSafe(arenaSpawnPoints[i]) }

\* The preferred point when it is safe, else the first safe point of the
\* arena's list, else the preferred point.
resolveSpawnPoint(preferred) ==
    IF isSpawnSafe(preferred)
    THEN preferred
    ELSE IF safeSpawnPoints = {}
    THEN preferred
    ELSE arenaSpawnPoints[CHOOSE i \in safeSpawnPoints :
                              \A j \in safeSpawnPoints : i <= j]

\* The loop of resolveSpawnPoint over a list of spawn points: the first safe
\* point from index on, or the preferred point when there is none.
RECURSIVE firstSafeSpawn(_, _, _)
firstSafeSpawn(preferred, spawnPoints, index) ==
    IF index > Len(spawnPoints)
    THEN preferred
    ELSE IF isSpawnSafe(spawnPoints[index])
    THEN spawnPoints[index]
    ELSE firstSafeSpawn(preferred, spawnPoints, index + 1)

\* resolveSpawnPoint whose loop returns the first point of the list, safe or
\* not.
resolveSpawnPointFrom_firstListed(preferred, spawnPoints) ==
    IF isSpawnSafe(preferred)
    THEN preferred
    ELSE IF Len(spawnPoints) = 0
    THEN preferred
    ELSE spawnPoints[1]

\* resolveSpawnPoint with this.spawnPoints as an argument (the obstacles are
\* the arena's).
resolveSpawnPointFrom(preferred, spawnPoints) ==
    IF isSpawnSafe(preferred)
    THEN preferred
    ELSE firstSafeSpawn(preferred, spawnPoints, 1)

\* The fields as the class initialises them (part_000:236-281).
NewGame ==
    [ started            |-> FALSE,
      room               |-> FALSE,
      localPeerId        |-> "",
      localPlayerName    |-> DEFAULT_PLAYER_NAME,
      localTeam          |-> "counter",
      matchCode          |-> DEFAULT_MATCH_CODE,
      position           |-> Point(0, 0, 0),
      weaponStates       |-> createInitialWeaponStates,
      activeWeapon       |-> "assaultRifle",
      localHealth        |-> FULL_HEALTH,
      localArmor         |-> FULL_ARMOR,
      localAlive         |-> TRUE,
      respawnAt          |-> NULL,
      spawnWave          |-> 0,
      firing             |-> FALSE,
      isPointerLocked    |-> FALSE,
      lastPresenceSentAt |-> 0,
      localDeaths        |-> 0,
      killRecords        |-> 0,
      damageEvents       |-> 0,
      inputs             |-> 0,
      advances           |-> 0 ]

\* publishPresence without the test of the 45 ms since the last publication.
publishPresence_unthrottled(g, now) ==
    IF ~g.room
    THEN g
    ELSE [ g EXCEPT !.lastPresenceSentAt = now ]

publishPresence(g, now) ==
    IF ~g.room
    THEN g
    ELSE IF now - g.lastPresenceSentAt < 45
    THEN g
    ELSE [ g EXCEPT !.lastPresenceSentAt = now ]

\* killRecords counts the kill records handed to db.transact.
handleLocalDeath(g, now) ==
    IF ~g.localAlive
    THEN g
    ELSE publishPresence(
            [ g EXCEPT !.localAlive  = FALSE,
                       !.firing      = FALSE,
                       !.respawnAt   = now + 4200,
                       !.localDeaths = g.localDeaths + 1,
                       !.killRecords = g.killRecords + 1 ],
            now)

\* onDamageEvent and handleLocalDeath that do not look at localAlive: a
\* damage event that leaves no health records a death, whoever it hits.
onDamageEvent_deadOrAlive(g, event, now) ==
    IF event.targetPeerId # g.localPeerId
    THEN g
    ELSE IF ~isWeaponId(event.weaponId)
    THEN g
    ELSE LET spec == WEAPONS[event.weaponId]
             result == applyDamage(
                          [ health |-> g.localHealth, armor |-> g.localArmor ],
                          event.damage, spec.armorPenetration)
             hit == [ g EXCEPT !.localHealth = result.health,
                               !.localArmor  = result.armor ]
         IN  IF result.isEliminated
             THEN publishPresence(
                      [ hit EXCEPT !.localAlive  = FALSE,
                                   !.firing      = FALSE,
                                   !.respawnAt   = now + 4200,
                                   !.localDeaths = g.localDeaths + 1,
                                   !.killRecords = g.killRecords + 1 ],
                      now)
             ELSE hit

\* onDamageEvent that does not look at the event's target.
onDamageEvent_anyTarget(g, event, now) ==
    IF ~g.localAlive
    THEN g
    ELSE IF ~isWeaponId(event.weaponId)
    THEN g
    ELSE LET spec == WEAPONS[event.weaponId]
             result == applyDamage(
                          [ health |-> g.localHealth, armor |-> g.localArmor ],
                          event.damage, spec.armorPenetration)
             hit == [ g EXCEPT !.localHealth = result.health,
                               !.localArmor  = result.armor ]
         IN  IF result.isEliminated THEN handleLocalDeath(hit, now) ELSE hit

onDamageEvent(g, event, now) ==
    IF ~g.localAlive \/ event.targetPeerId # g.localPeerId
    THEN g
    ELSE IF ~isWeaponId(event.weaponId)
    THEN g
    ELSE LET spec == WEAPONS[event.weaponId]
             result == applyDamage(
                          [ health |-> g.localHealth, armor |-> g.localArmor ],
                          event.damage, spec.armorPenetration)
             hit == [ g EXCEPT !.localHealth = result.health,
                               !.localArmor  = result.armor ]
         IN  IF result.isEliminated THEN handleLocalDeath(hit, now) ELSE hit

\* respawnLocalPlayer that forgets to count the wave.
respawnLocalPlayer_sameWave(g, now) ==
    LET spawn == resolveSpawnPoint(
                    pickSpawnPoint(g.matchCode, g.localPlayerName,
                                   arenaSpawnPoints, g.spawnWave))
    IN  publishPresence(
            [ g EXCEPT !.localHealth  = FULL_HEALTH,
                       !.localArmor   = FULL_ARMOR,
                       !.localAlive   = TRUE,
                       !.position     = spawn,
                       !.weaponStates = createInitialWeaponStates ],
            now)

respawnLocalPlayer(g, now) ==
    LET spawn == resolveSpawnPoint(
                    pickSpawnPoint(g.matchCode, g.localPlayerName,
                                   arenaSpawnPoints, g.spawnWave + 1))
    IN  publishPresence(
            [ g EXCEPT !.spawnWave    = g.spawnWave + 1,
                       !.localHealth  = FULL_HEALTH,
                       !.localArmor   = FULL_ARMOR,
                       !.localAlive   = TRUE,
                       !.position     = spawn,
                       !.weaponStates = createInitialWeaponStates ],
            now)

reloadActiveWeapon(g, now) ==
    LET current == g.weaponStates[g.activeWeapon]
        next == beginReload(current, now)
    IN  IF next = current
        THEN g
        ELSE [ g EXCEPT !.weaponStates[g.activeWeapon] = next ]

setActiveWeapon(g, weaponId) ==
    [ g EXCEPT !.activeWeapon = weaponId ]

\* tryFire that leaves an empty magazine alone (no reload on 'empty-mag').
tryFire_noReloadOnEmpty(g, now) ==
    IF ~g.localAlive \/ ~g.room
    THEN g
    ELSE LET current == g.weaponStates[g.activeWeapon]
             result == tryFireWeapon(current, now)
         IN  IF ~result.didFire
             THEN g
             ELSE [ g EXCEPT !.weaponStates[g.activeWeapon] = result.next ]

\* FpsGame.tryFire, without the hit-scan and the events it publishes.
tryFire(g, now) ==
    IF ~g.localAlive \/ ~g.room
    THEN g
    ELSE LET current == g.weaponStates[g.activeWeapon]
             result == tryFireWeapon(current, now)
         IN  IF ~result.didFire
             THEN IF result.reason = "empty-mag"
                  THEN reloadActiveWeapon(g, now)
                  ELSE g
             ELSE [ g EXCEPT !.weaponStates[g.activeWeapon] = result.next ]

\* damageByPeer.set for one pellet's hit: the Map keeps its keys in the order
\* of their first insertion, so it is a sequence of entries here.
recordHit(damageByPeer, weaponId, hit) ==
    LET damage == computeWeaponDamage(weaponId, hit.distance, hit.headshot)
        previous == { i \in DOMAIN damageByPeer :
                         damageByPeer[i].peerId = hit.peerId }
    IN  IF previous = {}
        THEN Append(damageByPeer,
                    [ peerId |-> hit.peerId, amount |-> damage,
                      headshot |-> hit.headshot ])
        ELSE [ i \in DOMAIN damageByPeer |->
                 IF i \in previous
                 THEN [ peerId   |-> hit.peerId,
                        amount   |-> damageByPeer[i].amount + damage,
                        headshot |-> damageByPeer[i].headshot \/ hit.headshot ]
                 ELSE damageByPeer[i] ]

\* The loop over the pellets.  hits[pellet] is what findShotHit returns for
\* the pellet: no element for null, else the one hit.
RECURSIVE pelletLoop(_, _, _, _)
pelletLoop(weaponId, hits, pellet, damageByPeer) ==
    IF pellet > WEAPONS[weaponId].pellets
    THEN damageByPeer
    ELSE pelletLoop(weaponId, hits, pellet + 1,
                    IF Len(hits[pellet]) = 0
                    THEN damageByPeer
                    ELSE recordHit(damageByPeer, weaponId, hits[pellet][1]))

NothingPublished == [ shot |-> << >>, damage |-> << >> ]

\* What FpsGame.tryFire hands to room.publishTopic: the events of the topic
\* "shot" and those of the topic "damage", in their order.
tryFirePublished(g, now, hits) ==
    IF ~g.localAlive \/ ~g.room
    THEN NothingPublished
    ELSE IF ~tryFireWeapon(g.weaponStates[g.activeWeapon], now).didFire
    THEN NothingPublished
    ELSE LET damageByPeer == pelletLoop(g.activeWeapon, hits, 1, << >>)
         IN  [ shot |-> IF g.localPeerId # ""
                        THEN << [ attackerPeerId |-> g.localPeerId,
                                  weaponId       |-> g.activeWeapon,
                                  timestamp      |-> now ] >>
                        ELSE << >>,
               damage |-> [ i \in DOMAIN damageByPeer |->
                              [ attackerPeerId |-> g.localPeerId,
                                targetPeerId   |-> damageByPeer[i].peerId,
                                damage         |-> damageByPeer[i].amount,
                                weaponId       |-> g.activeWeapon,
                                headshot       |-> damageByPeer[i].headshot,
                                timestamp      |-> now ] ] ]

\* tryAutomaticFire that does not look at the weapon's automatic flag.
tryAutomaticFire_anyWeapon(g, now) ==
    IF ~g.firing \/ ~g.isPointerLocked
    THEN g
    ELSE tryFire(g, now)

tryAutomaticFire(g, now) ==
    IF ~g.firing \/ ~g.isPointerLocked
    THEN g
    ELSE IF ~WEAPONS[g.activeWeapon].automatic
    THEN g
    ELSE tryFire(g, now)

\* updateLocalState that ticks the reload of the active weapon only.
updateLocalState_activeOnly(g, now) ==
    LET ticked == [ g EXCEPT !.weaponStates[g.activeWeapon] =
                        tickReload(g.weaponStates[g.activeWeapon], now) ]
    IN  IF ~ticked.localAlive
        THEN IF ticked.respawnAt # NULL /\ now >= ticked.respawnAt
             THEN respawnLocalPlayer([ ticked EXCEPT !.respawnAt = NULL ], now)
             ELSE ticked
        ELSE tryAutomaticFire(ticked, now)

\* updateLocalState that respawns a dead player on the next tick, whatever
\* the deadline.
updateLocalState_noDeadline(g, now) ==
    LET ticked == [ g EXCEPT !.weaponStates =
                        [ id \in WeaponId |-> tickReload(g.weaponStates[id], now) ] ]
    IN  IF ~ticked.localAlive
        THEN IF ticked.respawnAt # NULL
             THEN respawnLocalPlayer([ ticked EXCEPT !.respawnAt = NULL ], now)
             ELSE ticked
        ELSE tryAutomaticFire(ticked, now)

\* updateLocalState that resolves the fire before it ticks the reloads.
updateLocalState_fireFirst(g, now) ==
    LET fired == IF g.localAlive THEN tryAutomaticFire(g, now) ELSE g
        ticked == [ fired EXCEPT !.weaponStates =
                        [ id \in WeaponId |->
                            tickReload(fired.weaponStates[id], now) ] ]
    IN  IF ~ticked.localAlive
        THEN IF ticked.respawnAt # NULL /\ now >= ticked.respawnAt
             THEN respawnLocalPlayer([ ticked EXCEPT !.respawnAt = NULL ], now)
             ELSE ticked
        ELSE ticked

\* updateLocalState, without stepPlayerMovement and the camera.  ticked is
\* the game after the loop over the weapons, taken as a value once.
updateLocalState(g, now) ==
    CHOOSE updated \in
        { IF ~ticked.localAlive
          THEN IF ticked.respawnAt # NULL /\ now >= ticked.respawnAt
               THEN respawnLocalPlayer([ ticked EXCEPT !.respawnAt = NULL ], now)
               ELSE ticked
          ELSE tryAutomaticFire(ticked, now) :
            ticked \in { [ g EXCEPT !.weaponStates =
                             [ id \in WeaponId |->
                                 tickReload(g.weaponStates[id], now) ] ] } } :
        TRUE

\* updated is the game as updateLocalState leaves it, taken as a value once.
animate(g, now) ==
    CHOOSE published \in
        { publishPresence(updated, now) :
            updated \in { updateLocalState(g, now) } } :
        TRUE

\* String.prototype.trim on a string whose white space is the space (32).
RECURSIVE trim(_)
trim(text) ==
    IF Len(text) = 0 THEN text
    ELSE IF text[1] = 32 THEN trim(SubSeq(text, 2, Len(text)))
    ELSE IF text[Len(text)] = 32 THEN trim(SubSeq(text, 1, Len(text) - 1))
    ELSE text

\* String.prototype.toUpperCase on a string of ASCII code units.
toUpperCase(text) ==
    [ i \in 1 .. Len(text) |->
        IF text[i] \in 97 .. 122 THEN text[i] - 32 ELSE text[i] ]

\* text.slice(0, 18)
slice18(text) == SubSeq(text, 1, Min(18, Len(text)))

TEAM_NAMES == << "counter", "terror" >>

\* One round of pickTeam's loop: hash = (hash << 5) - hash + charCode, then
\* hash |= 0.  The shift is taken in 32 bits (ToInt32 of hash * 32), the
\* difference and the sum are exact, and |= 0 is ToInt32 again.  The
\* arithmetic is done on 16-bit halves: lo and hi are the halves of hash's
\* two's complement, shiftedLo and shiftedHi those of hash << 5.
pickTeamStep(hash, charCode) ==
    LET lo == hash % 65536
        hi == (hash \div 65536) % 65536
        shiftedLo == (32 * lo) % 65536
        shiftedHi == (32 * hi + ((32 * lo) \div 65536)) % 65536
        low == shiftedLo - lo + charCode
        high == (shiftedHi - hi + (low \div 65536)) % 65536
    IN  (IF high >= 32768 THEN high - 65536 ELSE high) * 65536 + (low % 65536)

RECURSIVE pickTeamLoop(_, _, _)
pickTeamLoop(merged, index, hash) ==
    IF index > Len(merged)
    THEN hash
    ELSE CHOOSE result \in { pickTeamLoop(merged, index + 1, next) :
                                next \in { pickTeamStep(hash, merged[index]) } } :
             TRUE

\* pickTeam without Math.abs: the remainder of a negative odd hash is -1,
\* and TEAM_NAMES[-1] is undefined.
pickTeam_signedRemainder(playerName, matchCode) ==
    LET hash == CHOOSE h \in { pickTeamLoop(merged, 1, 0) :
                       merged \in { matchCode \o << 58 >> \o playerName } } :
                    TRUE
    IN  IF hash < 0 /\ hash % 2 = 1
        THEN "undefined"
        ELSE TEAM_NAMES[(hash % 2) + 1]

\* FpsGame.pickTeam: merged is `${matchCode}:${playerName}`.
pickTeam(playerName, matchCode) ==
    LET hash == CHOOSE h \in { pickTeamLoop(merged, 1, 0) :
                       merged \in { matchCode \o << 58 >> \o playerName } } :
                    TRUE
    IN  TEAM_NAMES[AbsRemainder(hash, Len(TEAM_NAMES)) + 1]

\* startMatch up to its first await (part_000:1111-1150); playerInput and
\* matchInput are the values of the lobby's two text fields.
startMatch(g, playerInput, matchInput) ==
    LET chosenName == trim(playerInput)
        chosenCode == toUpperCase(trim(matchInput))
        name == IF Len(chosenName) > 0 THEN slice18(chosenName)
                ELSE DEFAULT_PLAYER_NAME
        code == IF Len(chosenCode) > 0 THEN slice18(chosenCode)
                ELSE DEFAULT_MATCH_CODE
        spawn == resolveSpawnPoint(
                    pickSpawnPoint(code, name, arenaSpawnPoints, 0))
    IN  [ g EXCEPT !.started         = TRUE,
                   !.localPlayerName = name,
                   !.matchCode       = code,
                   !.localTeam       = pickTeam(name, code),
                   !.spawnWave       = 0,
                   !.position        = spawn,
                   !.weaponStates    = createInitialWeaponStates,
                   !.localHealth     = FULL_HEALTH,
                   !.localArmor      = FULL_ARMOR,
                   !.localAlive      = TRUE,
                   !.localDeaths     = 0 ]

joinRealtimeRoom(g) ==
    [ g EXCEPT !.room = TRUE ]

\* A field of a presence snapshot that may be missing is a sequence of at
\* most one value; value ?? fallback:
OrElse(optional, fallback) ==
    IF Len(optional) = 0 THEN fallback ELSE optional[1]

\* remotePlayers.get(peerId) when the peer is not known
NoRemote == [ peerId |-> "", weaponId |-> "none", x |-> 0, y |-> 0, z |-> 0 ]

\* upsertRemotePlayer with the assets loaded: the remote player kept for the
\* peer afterwards (its weapon kind and its target position), known being
\* the one kept before.  A missing weaponId is the string "undefined".
upsertRemotePlayer(known, peer) ==
    LET weaponId == IF isWeaponId(peer.weaponId) THEN peer.weaponId
                    ELSE "assaultRifle"
    IN  IF known = NoRemote
        THEN [ peerId   |-> peer.peerId,
               weaponId |-> weaponId,
               x |-> OrElse(peer.x, 0),
               y |-> OrElse(peer.y, 0),
               z |-> OrElse(peer.z, 0) ]
        ELSE [ known EXCEPT
                 !.x = OrElse(peer.x, 0),
                 !.y = OrElse(peer.y, 0),
                 !.z = OrElse(peer.z, 0),
                 !.weaponId = IF isWeaponId(peer.weaponId)
                                 /\ peer.weaponId # known.weaponId
                              THEN peer.weaponId
                              ELSE known.weaponId ]

----------------------------------------------------------------------------
(* The weapon harness: one WeaponRuntimeState, taken through any sequence  *)
(* of tryFireWeapon, beginReload and tickReload calls at the readings of a *)
(* clock that never runs backwards.                                        *)

\* The states a harness run starts from: a new state, the state of the
\* reload test (weapons.test.ts:34-38: 1 round loaded, 20 in reserve), and a
\* nearly spent weapon whose reserve cannot fill the magazine.
StartStates(weaponId) ==
    { createWeaponState(weaponId),
      [ createWeaponState(weaponId) EXCEPT !.ammoInMag = 1, !.ammoReserve = 20 ],
      [ createWeaponState(weaponId) EXCEPT !.ammoInMag = 0, !.ammoReserve = 3 ] }

\* The clock jumps to the instants at which the code's comparisons change
\* their answer: one short of the end of the cooldown and its end; one short
\* of the reload deadline, the deadline and one past it.  Between two such
\* instants every call answers as it does at one of them.  With no such
\* instant ahead, one fire interval passes.
Boundaries(state) ==
    LET spec == WEAPONS[state.weaponId] IN
    ( IF state.lastShotAt = NEVER_SHOT THEN {}
      ELSE { state.lastShotAt + spec.fireIntervalMs - 1,
             state.lastShotAt + spec.fireIntervalMs } )
    \cup ( IF state.reloadingUntil = NULL THEN {}
           ELSE { state.reloadingUntil - 1, state.reloadingUntil,
                  state.reloadingUntil + 1 } )

ClockTargets(state, now) ==
    LET ahead == { t \in Boundaries(state) : t > now } IN
    IF ahead = {} THEN { now + WEAPONS[state.weaponId].fireIntervalMs } ELSE ahead

NoCall == [ op |-> "none", state |-> createWeaponState("pistol"), now |-> 0,
            next |-> createWeaponState("pistol"), didFire |-> FALSE,
            reason |-> "none", sinceFired |-> 0 ]

NoCompute == [ weaponId |-> "none", distance |-> 0, body |-> 0, head |-> 0 ]

NewDamageState == [ health |-> FULL_HEALTH, armor |-> FULL_ARMOR ]

NoApply == [ op |-> "none", state |-> NewDamageState, rawDamage |-> 0,
             armorPenetration |-> 0,
             result |-> [ health |-> FULL_HEALTH, armor |-> FULL_ARMOR,
                          damageApplied |-> 0, isEliminated |-> FALSE ],
             hits |-> 0 ]

DamageHarnessOff ==
    /\ ccall = NoCompute
    /\ dstate = NewDamageState
    /\ dcall = NoApply

NoSpawnCall ==
    [ op |-> "none", matchCode |-> << >>, playerName |-> << >>,
      spawnPoints |-> << >>, wave |-> 0, hash |-> 0,
      first |-> Point(0, 0, 0), second |-> Point(0, 0, 0) ]

NoGameCall == [ op |-> "none" ]

NoMoveCall == [ op |-> "none" ]

\* Number.POSITIVE_INFINITY, above every distance in the arena (in mm).
POSITIVE_INFINITY == 1000000000

\* findNearestObstacleDistance.  wallHits[i] is what intersectRayAabb
\* returns for the i-th obstacle: no element for null, else the distance
\* along the ray.  The result is null (no element) or the nearest distance.
RECURSIVE nearestObstacleLoop(_, _, _)
nearestObstacleLoop(wallHits, index, nearest) ==
    IF index > Len(wallHits)
    THEN nearest
    ELSE nearestObstacleLoop(
             wallHits, index + 1,
             IF Len(wallHits[index]) = 0
             THEN nearest
             ELSE IF wallHits[index][1] < nearest
             THEN wallHits[index][1]
             ELSE nearest)

findNearestObstacleDistance(wallHits) ==
    LET nearest == nearestObstacleLoop(wallHits, 1, POSITIVE_INFINITY)
    IN  IF nearest < POSITIVE_INFINITY THEN << nearest >> ELSE << >>

\* One remote player of findShotHit's loop.  bodyHit and headHit are what
\* intersectRaySphere returns for the player's two spheres (no element for
\* null); closest is the hit kept so far (no element for null).
shotHitRemote(wallDistance, remote, closest) ==
    LET projectedDistance ==
            Min(OrElse(remote.headHit, POSITIVE_INFINITY),
                OrElse(remote.bodyHit, POSITIVE_INFINITY))
        headshot == /\ Len(remote.headHit) = 1
                    /\ remote.headHit[1] <= projectedDistance + 60
    IN  IF ~remote.alive
        THEN closest
        ELSE IF projectedDistance >= POSITIVE_INFINITY
        THEN closest
        ELSE IF /\ Len(wallDistance) = 1
                /\ wallDistance[1] > 120
                /\ wallDistance[1] + 40 < projectedDistance
        THEN closest
        ELSE IF Len(closest) = 0 \/ projectedDistance < closest[1].distance
        THEN << [ peerId   |-> remote.peerId,
                  distance |-> projectedDistance,
                  headshot |-> headshot ] >>
        ELSE closest

\* remotes is remotePlayers.values(), in the Map's order.
RECURSIVE shotHitLoop(_, _, _, _)
shotHitLoop(wallDistance, remotes, index, closest) ==
    IF index > Len(remotes)
    THEN closest
    ELSE shotHitLoop(wallDistance, remotes, index + 1,
                     shotHitRemote(wallDistance, remotes[index], closest))

\* FpsGame.findShotHit (ALLOW_TEAM_DAMAGE is true, so the team is not read).
findShotHit(wallHits, remotes) ==
    shotHitLoop(findNearestObstacleDistance(wallHits), remotes, 1, << >>)

NoHelperCall == [ op |-> "none" ]

SpawnHarnessOff ==
    /\ scall = NoSpawnCall
    /\ gcall = NoGameCall
    /\ mcall = NoMoveCall
    /\ hcall = NoHelperCall

WInit ==
    /\ clock = 0
    /\ DamageHarnessOff
    /\ SpawnHarnessOff
    /\ game = NewGame
    /\ \E id \in WeaponId : wpn \in StartStates(id)
    /\ wcall = NoCall
    /\ whist = [ start |-> wpn, shots |-> 0, reloadBegun |-> FALSE,
                 firedAt |-> NEVER_SHOT, advances |-> 0 ]

\* sinceFired: the time since the last call that fired, kept by the harness
\* (not read from the weapon state).
WFire ==
    LET result == tryFireWeapon(wpn, clock) IN
    /\ wpn' = result.next
    /\ wcall' = [ op |-> "tryFire", state |-> wpn, now |-> clock,
                  next |-> result.next, didFire |-> result.didFire,
                  reason |-> result.reason,
                  sinceFired |-> clock - whist.firedAt ]
    /\ whist' = IF result.didFire
                THEN [ whist EXCEPT !.shots = whist.shots + 1,
                                    !.firedAt = clock ]
                ELSE whist
    /\ UNCHANGED <<clock, dvars, game, pvars>>

WBeginReload ==
    LET next == beginReload(wpn, clock) IN
    /\ wpn' = next
    /\ wcall' = [ op |-> "beginReload", state |-> wpn, now |-> clock,
                  next |-> next, didFire |-> FALSE, reason |-> "none",
                  sinceFired |-> clock - whist.firedAt ]
    /\ whist' = IF next # wpn THEN [ whist EXCEPT !.reloadBegun = TRUE ] ELSE whist
    /\ UNCHANGED <<clock, dvars, game, pvars>>

WTickReload ==
    LET next == tickReload(wpn, clock) IN
    /\ wpn' = next
    /\ wcall' = [ op |-> "tickReload", state |-> wpn, now |-> clock,
                  next |-> next, didFire |-> FALSE, reason |-> "none",
                  sinceFired |-> clock - whist.firedAt ]
    /\ UNCHANGED <<clock, whist, dvars, game, pvars>>

WAdvance ==
    /\ whist.advances < MaxAdvances
    /\ clock' \in ClockTargets(wpn, clock)
    /\ whist' = [ whist EXCEPT !.advances = whist.advances + 1 ]
    /\ wcall' = NoCall
    /\ UNCHANGED <<wpn, dvars, game, pvars>>

WNext == WFire \/ WBeginReload \/ WTickReload \/ WAdvance

SpecWeapon == WInit /\ [][WNext]_vars

----------------------------------------------------------------------------
(* The damage harness: computeWeaponDamage called for a weapon and a       *)
(* distance, and applyDamage called on one DamageState a bounded number of *)
(* times, with raw damage and armor penetration drawn from small sets or   *)
(* taken from the shot just computed.                                      *)

NoHist == [ start |-> createWeaponState("pistol"), shots |-> 0,
            reloadBegun |-> FALSE, firedAt |-> NEVER_SHOT, advances |-> 0 ]

WeaponHarnessOff ==
    /\ wpn = createWeaponState("pistol")
    /\ wcall = NoCall
    /\ whist = NoHist

\* Raw damage: negative and zero (a sender may put any number in a damage
\* event), one point, and more than armor and health can take.
RawDamages == { -10, 0, 1, 200 }

\* Armor penetration in hundredths: below 0, 0, the three weapons', 1, above 1.
Penetrations == { -50, 0, 42, 57, 64, 100, 150 }

\* The distances of the damage harness, in decimetres: 5 m, the distance of
\* the documented scenario.
ScenarioDistances == { 50 }

Distances == 0 .. MaxDistance

Compute(weaponId, distance) ==
    /\ ccall' = [ weaponId |-> weaponId, distance |-> distance,
                  body |-> computeWeaponDamage(weaponId, distance, FALSE),
                  head |-> computeWeaponDamage(weaponId, distance, TRUE) ]

Apply(rawDamage, armorPenetration) ==
    LET result == applyDamage(dstate, rawDamage, armorPenetration) IN
    /\ dcall.hits < MaxHits
    /\ dcall' = [ op |-> "applyDamage", state |-> dstate,
                  rawDamage |-> rawDamage,
                  armorPenetration |-> armorPenetration,
                  result |-> result, hits |-> dcall.hits + 1 ]
    /\ dstate' = [ health |-> result.health, armor |-> result.armor ]

DInit ==
    /\ clock = 0
    /\ WeaponHarnessOff
    /\ DamageHarnessOff
    /\ SpawnHarnessOff
    /\ game = NewGame

DCompute ==
    /\ \E id \in WeaponId, d \in ScenarioDistances : Compute(id, d)
    /\ UNCHANGED <<clock, wvars, dstate, dcall, game, pvars>>

DApply ==
    /\ \E raw \in RawDamages, pen \in Penetrations : Apply(raw, pen)
    /\ UNCHANGED <<clock, wvars, ccall, game, pvars>>

\* The shot just computed lands: its damage (body or head) is applied with
\* the armor penetration of its weapon.
DApplyShot ==
    /\ ccall # NoCompute
    /\ \E raw \in { ccall.body, ccall.head } :
          Apply(raw, WEAPONS[ccall.weaponId].armorPenetration)
    /\ UNCHANGED <<clock, wvars, ccall, game, pvars>>

DNext == DCompute \/ DApply \/ DApplyShot

SpecDamage == DInit /\ [][DNext]_vars

\* computeWeaponDamage alone: each behaviour computes the damage of one shot,
\* for any weapon and any distance up to MaxDistance.
FCompute ==
    /\ ccall = NoCompute
    /\ \E id \in WeaponId, d \in Distances : Compute(id, d)
    /\ UNCHANGED <<clock, wvars, dstate, dcall, game, pvars>>

SpecFalloff == DInit /\ [][FCompute]_vars

----------------------------------------------------------------------------
(* The spawn harness: pickSpawnPoint called twice with the same arguments, *)
(* for match codes and player names as startMatch hands them over (trimmed,*)
(* at most 18 code units, the match code in upper case), waves from 0 and  *)
(* the arena's list of spawn points cut to several lengths.                *)

\* "DUST-SIM" and "A"
MatchCodes == { DEFAULT_MATCH_CODE, << 65 >> }

\* "Operator", "Ace", "adwxrtsx" (with "DUST-SIM" and wave 1 its seed hashes
\* to -2^31) and a name of 18 code units, "Sgt. Maria O'Neill".
PlayerNames ==
    { DEFAULT_PLAYER_NAME,
      << 65, 99, 101 >>,
      << 97, 100, 119, 120, 114, 116, 115, 120 >>,
      << 83, 103, 116, 46, 32, 77, 97, 114, 105, 97, 32, 79, 39, 78, 101,
         105, 108, 108 >> }

SpawnLists == { SubSeq(arenaSpawnPoints, 1, n) : n \in { 0, 1, 5, 7, 12 } }

Waves == 0 .. MaxWave

SInit ==
    /\ clock = 0
    /\ WeaponHarnessOff
    /\ DamageHarnessOff
    /\ game = NewGame
    /\ SpawnHarnessOff

\* hash: the hash of the seed the call builds (part_001:239-240).
SPick ==
    /\ scall = NoSpawnCall
    /\ \E code \in MatchCodes, name \in PlayerNames,
          list \in SpawnLists, w \in Waves :
          scall' = [ op |-> "pickSpawnPoint",
                     matchCode |-> code, playerName |-> name,
                     spawnPoints |-> list, wave |-> w,
                     hash |-> hashString(code \o << 58 >> \o name
                                         \o << 58 >> \o NumberToString(w)),
                     first  |-> pickSpawnPoint(code, name, list, w),
                     second |-> pickSpawnPoint(code, name, list, w) ]
    /\ UNCHANGED <<clock, wvars, dvars, game, gcall, mcall, hcall>>

SpecSpawn == SInit /\ [][SPick]_vars

----------------------------------------------------------------------------
(* The movement harness: one call of stepPlayerMovement, with one obstacle *)
(* in the arena's bounds.                                                  *)

WORLD_HALF_SIZE == 31000

moveBounds ==
    [ minX |-> -WORLD_HALF_SIZE, maxX |-> WORLD_HALF_SIZE,
      minZ |-> -WORLD_HALF_SIZE, maxZ |-> WORLD_HALF_SIZE, floorY |-> 0 ]

\* A wall standing on the floor, a beam a crouching player passes under and
\* a plate a jump clears; all have the footprint 1000..3000 by -1000..1000.
\* A crate by the arena's east side, 500 mm from the bound.
SingleObstacles ==
    { [ min |-> Point(1000, 0, -1000),    max |-> Point(3000, 2400, 1000) ],
      [ min |-> Point(1000, 1500, -1000), max |-> Point(3000, 2500, 1000) ],
      [ min |-> Point(1000, 0, -1000),    max |-> Point(3000, 100, 1000) ],
      [ min |-> Point(29000, 0, -1000),   max |-> Point(30500, 2400, 1000) ] }

\* position is strictly inside the obstacle's footprint inflated by the
\* collision radius.
InsideInflated(position, obstacle) ==
    /\ position.x > obstacle.min.x - PLAYER_RADIUS
    /\ position.x < obstacle.max.x + PLAYER_RADIUS
    /\ position.z > obstacle.min.z - PLAYER_RADIUS
    /\ position.z < obstacle.max.z + PLAYER_RADIUS

\* Start positions around the footprint: near each side, on a side, near a
\* corner, on the floor and at the height of the wall's top; and on the
\* arena's inset east bound, at the corner of the crate's inflated footprint.
StartPositions ==
    { position \in { Point(600, 0, 0), Point(660, 0, 0), Point(560, 0, -1400),
                     Point(3400, 0, 300), Point(2000, 0, 1400),
                     Point(1900, 0, -1440), Point(600, 2400, 0),
                     Point(30660, 0, 1340) } :
        \A obstacle \in SingleObstacles : ~InsideInflated(position, obstacle) }

Yaws == { 0, 37, 45, 90, 135, 180, 225, 270, 315 }

StartVelocities ==
    { Point(0, 0, 0), Point(5600, 0, 0), Point(-8800, 0, 3000),
      Point(0, 0, -8800), Point(20000, 0, -20000) }

NoInput ==
    [ moveForward |-> FALSE, moveBackward |-> FALSE, moveLeft |-> FALSE,
      moveRight |-> FALSE, sprint |-> FALSE, crouch |-> FALSE, jump |-> FALSE ]

InputStates ==
    { NoInput,
      [ NoInput EXCEPT !.moveForward = TRUE ],
      [ NoInput EXCEPT !.moveForward = TRUE, !.sprint = TRUE ],
      [ NoInput EXCEPT !.moveForward = TRUE, !.moveRight = TRUE ],
      [ NoInput EXCEPT !.moveForward = TRUE, !.crouch = TRUE ],
      [ NoInput EXCEPT !.moveForward = TRUE, !.jump = TRUE ],
      [ NoInput EXCEPT !.moveBackward = TRUE ],
      [ NoInput EXCEPT !.moveLeft = TRUE ] }

\* dt is min(0.033, the frame's time): a 60 Hz frame and the cap.
FrameTimes == { 16, 33 }

MInit ==
    /\ clock = 0
    /\ WeaponHarnessOff
    /\ DamageHarnessOff
    /\ game = NewGame
    /\ SpawnHarnessOff

MStep ==
    /\ mcall = NoMoveCall
    /\ \E obstacle \in SingleObstacles, position \in StartPositions,
          velocity \in StartVelocities, yaw \in Yaws,
          input \in InputStates, dt \in FrameTimes :
          LET state == [ position |-> position, velocity |-> velocity,
                         yaw |-> yaw, grounded |-> TRUE, crouching |-> FALSE ]
          IN  mcall' = [ op |-> "stepPlayerMovement",
                         state |-> state, input |-> input, dt |-> dt,
                         obstacles |-> << obstacle >>,
                         result |-> stepPlayerMovement(state, input, dt,
                                                       << obstacle >>,
                                                       moveBounds) ]
    /\ UNCHANGED <<clock, wvars, dvars, game, scall, gcall, hcall>>

SpecMove == MInit /\ [][MStep]_vars

----------------------------------------------------------------------------
(* The game: FpsGame's handlers run one at a time, in any order the page's *)
(* events allow.                                                           *)

\* What a peer may put in a damage event: the local player or another as
\* target, a damage amount that is negative, a pistol body hit or more than
\* a player can take, and a weapon kind: two of the known ones and one that
\* is unknown.
DamageEvents ==
    [ targetPeerId : { "me", "other" },
      damage       : { -10, 28, 200 },
      weaponId     : { "assaultRifle", "pistol", "knife" } ]

\* The instants at which the game's comparisons change their answer: the
\* cooldown of the active weapon, the reload deadline of every weapon, the
\* respawn deadline.  With none ahead, one fire interval passes.
GameBoundaries(g) ==
    LET active == g.weaponStates[g.activeWeapon]
        spec == WEAPONS[g.activeWeapon]
    IN  ( IF active.lastShotAt = NEVER_SHOT THEN {}
          ELSE { active.lastShotAt + spec.fireIntervalMs - 1,
                 active.lastShotAt + spec.fireIntervalMs } )
        \cup UNION { IF g.weaponStates[id].reloadingUntil = NULL THEN {}
                     ELSE { g.weaponStates[id].reloadingUntil - 1,
                            g.weaponStates[id].reloadingUntil } : id \in WeaponId }
        \cup ( IF g.respawnAt = NULL THEN {}
               ELSE { g.respawnAt - 1, g.respawnAt } )

GameClockTargets(g, now) ==
    LET ahead == { t \in GameBoundaries(g) : t > now } IN
    IF ahead = {} THEN { now + WEAPONS[g.activeWeapon].fireIntervalMs } ELSE ahead

HarnessesOff == WeaponHarnessOff /\ DamageHarnessOff /\ SpawnHarnessOff

Init ==
    /\ clock = PAGE_LOADED_AT
    /\ game = NewGame
    /\ HarnessesOff

\* What the player has typed in the lobby: nothing, or " adwxrtsx" and
\* "dust-sim " (with DUST-SIM the seed of that name's wave 1 hashes to -2^31),
\* or the match code "a" alone (the hash of "A:Operator" is negative and odd).
LobbyInputs ==
    { [ player |-> << >>, match |-> << >> ],
      [ player |-> << >>, match |-> << 97 >> ],
      [ player |-> << 32, 97, 100, 119, 120, 114, 116, 115, 120 >>,
        match  |-> << 100, 117, 115, 116, 45, 115, 105, 109, 32 >> ] }

StartMatch ==
    /\ ~game.started
    /\ \E typed \in LobbyInputs :
          game' = startMatch(game, typed.player, typed.match)
    /\ UNCHANGED <<clock, wvars, dvars, pvars>>

JoinRoom ==
    /\ game.started /\ ~game.room
    /\ game' = joinRealtimeRoom(game)
    /\ UNCHANGED <<clock, wvars, dvars, pvars>>

\* The presence callback tells the game its own peer id.
PresenceSlice ==
    /\ game.room
    /\ game' = [ game EXCEPT !.localPeerId = "me" ]
    /\ UNCHANGED <<clock, wvars, dvars, pvars>>

\* The damage events of the game with its inputs: those that kill.
Kills == { event \in DamageEvents : event.damage = 200 }

DamageEvent ==
    /\ game.room
    /\ game.damageEvents < MaxDamageEvents
    /\ \E event \in Kills :
          LET after == onDamageEvent(game, event, clock) IN
          game' = IF after = game THEN game
                  ELSE [ after EXCEPT !.damageEvents = game.damageEvents + 1 ]
    /\ UNCHANGED <<clock, wvars, dvars, pvars>>

Animate ==
    /\ game' = animate(game, clock)
    /\ UNCHANGED <<clock, wvars, dvars, pvars>>

\* The game after an input event: the bound counts the events that change
\* it (an event that changes nothing leaves the game as it was).
Input(g) == IF g = game THEN g ELSE [ g EXCEPT !.inputs = g.inputs + 1 ]

MouseDown ==
    /\ game.inputs < MaxInputs
    /\ game' = Input(IF ~game.isPointerLocked
                     THEN game
                     ELSE tryFire([ game EXCEPT !.firing = TRUE ], clock))
    /\ UNCHANGED <<clock, wvars, dvars, pvars>>

MouseUp ==
    /\ game.inputs < MaxInputs
    /\ game' = Input([ game EXCEPT !.firing = FALSE ])
    /\ UNCHANGED <<clock, wvars, dvars, pvars>>

KeyDigit ==
    /\ game.inputs < MaxInputs
    /\ \E id \in WeaponId : game' = Input(setActiveWeapon(game, id))
    /\ UNCHANGED <<clock, wvars, dvars, pvars>>

KeyR ==
    /\ game.inputs < MaxInputs
    /\ game' = Input(reloadActiveWeapon(game, clock))
    /\ UNCHANGED <<clock, wvars, dvars, pvars>>

PointerLockChange ==
    /\ game.inputs < MaxInputs
    /\ game' = Input([ game EXCEPT !.isPointerLocked = ~game.isPointerLocked ])
    /\ UNCHANGED <<clock, wvars, dvars, pvars>>

Advance ==
    /\ game.advances < MaxGameAdvances
    /\ clock' \in GameClockTargets(game, clock)
    /\ game' = [ game EXCEPT !.advances = game.advances + 1 ]
    /\ UNCHANGED <<wvars, dvars, pvars>>

Next ==
    \/ StartMatch
    \/ JoinRoom
    \/ PresenceSlice
    \/ DamageEvent
    \/ Animate
    \/ MouseDown
    \/ MouseUp
    \/ KeyDigit
    \/ KeyR
    \/ PointerLockChange
    \/ Advance

Spec == Init /\ [][Next]_vars

----------------------------------------------------------------------------
(* The local player's life: the match is started and joined, the room      *)
(* delivers damage events of any content, the animation frames run and the *)
(* clock advances; the player gives no input.  gcall keeps the last        *)
(* payload delivered, with the game before and after its handler.          *)

\* Every damage event is recorded; the bound counts those that change the
\* game.  after is the game as onDamageEvent leaves it.
RecordedDamageEvent ==
    /\ game.room
    /\ game.damageEvents < MaxDamageEvents
    /\ \E event \in DamageEvents :
          LET after == onDamageEvent(game, event, clock) IN
          /\ game' = IF after = game THEN game
                     ELSE [ after EXCEPT !.damageEvents = game.damageEvents + 1 ]
          /\ gcall' = [ op |-> "onDamageEvent", event |-> event, now |-> clock,
                        before |-> game, after |-> after ]
    /\ UNCHANGED <<clock, wvars, dvars, scall, mcall, hcall>>

\* The clock advances as in the game with its inputs; while the player is
\* dead and the respawn deadline is ahead it advances whatever the bound.
DeadlineAhead(g, now) ==
    ~g.localAlive /\ g.respawnAt # NULL /\ now < g.respawnAt

PlayerAdvance ==
    /\ game.advances < MaxGameAdvances \/ DeadlineAhead(game, clock)
    /\ clock' \in GameClockTargets(game, clock)
    /\ game' = [ game EXCEPT !.advances = Min(MaxGameAdvances, game.advances + 1) ]
    /\ gcall' = NoGameCall
    /\ UNCHANGED <<wvars, dvars, scall, mcall, hcall>>

PlayerNext ==
    \/ StartMatch
    \/ JoinRoom
    \/ PresenceSlice
    \/ RecordedDamageEvent
    \/ Animate
    \/ PlayerAdvance

SpecPlayer == Init /\ [][PlayerNext]_vars

\* The animation frames keep running (each requests the next one) and time
\* keeps advancing.
SpecPlayerLive ==
    SpecPlayer /\ WF_vars(Animate) /\ WF_vars(PlayerAdvance)

\* A damage event whose damage field is missing: the room hands the handler
\* what the peer has sent, and event.damage is undefined.
DamageEventsWithoutDamage ==
    [ targetPeerId : { "me" },
      damage       : { NaN },
      weaponId     : { "assaultRifle", "pistol" } ]

RecordedDamageEventWithoutDamage ==
    /\ game.room
    /\ game.damageEvents < MaxDamageEvents
    /\ \E event \in DamageEventsWithoutDamage :
          LET after == onDamageEvent(game, event, clock) IN
          /\ game' = IF after = game THEN game
                     ELSE [ after EXCEPT !.damageEvents = game.damageEvents + 1 ]
          /\ gcall' = [ op |-> "onDamageEvent", event |-> event, now |-> clock,
                        before |-> game, after |-> after ]
    /\ UNCHANGED <<clock, wvars, dvars, scall, mcall, hcall>>

\* The local player with peers that send damage events of any content.
SpecUntrusted ==
    Init /\ [][PlayerNext \/ RecordedDamageEventWithoutDamage]_vars

----------------------------------------------------------------------------
(* Automatic fire: a match under way in which the player holds the fire    *)
(* button with the assault rifle, whose ammunition is nearly spent.  The   *)
(* frames run and the time advances; the player may release the button,    *)
(* choose a weapon, press R or be killed.                                  *)

\* The rounds the assault rifle holds at most when the harness starts.
MaxAutoAmmo == 4

MaxAutoInputs == 2

\* The assault rifle's magazine and reserve at the start: one round loaded,
\* none loaded, and two rounds loaded with an empty reserve.
AutoStartAmmo ==
    { << 1, MaxAutoAmmo - 1 >>, << 0, MaxAutoAmmo - 1 >>, << 2, 0 >> }

AutoStartGame(ammo) ==
    LET joined == joinRealtimeRoom(startMatch(NewGame, << >>, << >>))
    IN  [ joined EXCEPT
            !.localPeerId = "me",
            !.isPointerLocked = TRUE,
            !.firing = TRUE,
            !.weaponStates["assaultRifle"] =
                [ createWeaponState("assaultRifle") EXCEPT
                    !.ammoInMag = ammo[1], !.ammoReserve = ammo[2] ] ]

AutoInit ==
    /\ clock = PAGE_LOADED_AT
    /\ HarnessesOff
    /\ \E ammo \in AutoStartAmmo : game = AutoStartGame(ammo)

\* Time advances to the next instants at which a comparison of the game
\* changes its answer, as long as there is one ahead.
AutoAdvance ==
    /\ \E t \in GameBoundaries(game) : t > clock
    /\ clock' \in { t \in GameBoundaries(game) : t > clock }
    /\ UNCHANGED <<game, wvars, dvars, pvars>>

\* The events that may end the automatic fire or reload by hand: at most
\* MaxAutoInputs of the player's, and one death.
AutoMouseUp == game.inputs < MaxAutoInputs /\ MouseUp

AutoKeyDigit == game.inputs < MaxAutoInputs /\ KeyDigit

AutoKeyR == game.inputs < MaxAutoInputs /\ KeyR

AutoDamageEvent == game.localDeaths = 0 /\ DamageEvent

AutoNext ==
    \/ Animate
    \/ AutoAdvance
    \/ AutoMouseUp
    \/ AutoKeyDigit
    \/ AutoKeyR
    \/ AutoDamageEvent

SpecAuto == AutoInit /\ [][AutoNext]_vars

\* The animation frames keep running (each requests the next one) and time
\* keeps advancing.
SpecAutoLive == SpecAuto /\ WF_vars(Animate) /\ WF_vars(AutoAdvance)

----------------------------------------------------------------------------
(* The payloads of the room: in a match that is started and joined, the    *)
(* room delivers damage events and presence snapshots of any content.      *)

\* What a peer may put in its presence: a weapon kind that is known, unknown
\* or missing, and coordinates that are there or missing.
PresencePeers ==
    [ peerId   : { "other" },
      weaponId : { "shotgun", "knife", "undefined" },
      x : { << 3000 >>, << >> },
      y : { << 0 >>, << >> },
      z : { << -2000 >>, << >> } ]

\* The remote players the game may hold for a peer: none, or one that an
\* earlier snapshot with a known weapon kind has made.
KnownRemotes ==
    { NoRemote }
    \cup { upsertRemotePlayer(NoRemote, peer) :
             peer \in { p \in PresencePeers : isWeaponId(p.weaponId) } }

\* A presence slice brings the snapshot of another peer.
RecordedPresencePeer ==
    /\ game.room
    /\ \E peer \in PresencePeers, known \in KnownRemotes :
          gcall' = [ op |-> "upsertRemotePlayer", peer |-> peer,
                     known |-> known,
                     remote |-> upsertRemotePlayer(known, peer) ]
    /\ UNCHANGED <<clock, wvars, dvars, scall, mcall, hcall, game>>

PayloadNext ==
    \/ StartMatch
    \/ JoinRoom
    \/ PresenceSlice
    \/ RecordedDamageEvent
    \/ RecordedPresencePeer

SpecPayload == Init /\ [][PayloadNext]_vars

----------------------------------------------------------------------------
(* The fire action: in a match that is started the player locks the        *)
(* pointer, chooses a weapon and presses the mouse button; gcall keeps     *)
(* what the press published.  What findShotHit returns for each pellet     *)
(* depends on the spread (Math.random) and on where the remote players     *)
(* stand: it is an input here.                                             *)

\* What findShotHit may return: null, a body hit or a head hit on one peer
\* at 5 m, a body hit on another at 20 m.
ShotHits ==
    { << >>,
      << [ peerId |-> "other", distance |-> 50, headshot |-> FALSE ] >>,
      << [ peerId |-> "other", distance |-> 50, headshot |-> TRUE ] >>,
      << [ peerId |-> "third", distance |-> 200, headshot |-> FALSE ] >> }

PelletHits(weaponId) ==
    LET hitting == 1 .. Min(WEAPONS[weaponId].pellets, MaxPelletsHitting)
    IN  { [ pellet \in 1 .. WEAPONS[weaponId].pellets |->
              IF pellet \in hitting THEN first[pellet] ELSE << >> ] :
            first \in [ hitting -> ShotHits ] }

RecordedMouseDown ==
    /\ game.inputs < MaxInputs
    /\ \E hits \in PelletHits(game.activeWeapon) :
          LET pressed == [ game EXCEPT !.firing = TRUE ] IN
          /\ game' = Input(IF ~game.isPointerLocked
                           THEN game
                           ELSE tryFire(pressed, clock))
          /\ gcall' = [ op |-> "tryFire", before |-> game, now |-> clock,
                        hits |-> hits,
                        didFire |->
                            /\ game.isPointerLocked
                            /\ game.localAlive
                            /\ game.room
                            /\ tryFireWeapon(game.weaponStates[game.activeWeapon],
                                             clock).didFire,
                        published |->
                            IF ~game.isPointerLocked
                            THEN NothingPublished
                            ELSE tryFirePublished(pressed, clock, hits) ]
    /\ UNCHANGED <<clock, wvars, dvars, scall, mcall, hcall>>

FireNext ==
    \/ StartMatch
    \/ JoinRoom
    \/ PresenceSlice
    \/ PointerLockChange
    \/ KeyDigit
    \/ RecordedMouseDown

SpecFire == Init /\ [][FireNext]_vars

----------------------------------------------------------------------------
(* The helper harness: one call of findShotHit or of resolveSpawnPoint.   *)
(* The ray of findShotHit is given by                                     *)
(* what it meets: for every obstacle the result of intersectRayAabb, for  *)
(* every remote player the results of intersectRaySphere on its body and  *)
(* head spheres (distances in mm along the ray).                          *)

WallHitResults == { << >>, << 100 >>, << 4980 >>, << 5000 >>, << 8000 >> }

WallHitLists ==
    { << >> } \cup { << a >> : a \in WallHitResults }
              \cup { << a, b >> : a, b \in WallHitResults }

BodyHitResults == { << >>, << 5000 >>, << 5010 >>, << 9000 >> }

HeadHitResults == { << >>, << 5040 >> }

RemoteTargets(peerId) ==
    { [ peerId |-> peerId, alive |-> alive,
        bodyHit |-> bodyHit, headHit |-> headHit ] :
          alive \in BOOLEAN, bodyHit \in BodyHitResults,
          headHit \in HeadHitResults }

RemoteLists ==
    { << first, second >> :
          first \in RemoteTargets("peer-a"), second \in RemoteTargets("peer-b") }

\* Spawn points that are not safe: in the block at the arena's centre,
\* against a crate stack, and 600 mm from the inner side of the west wall.
UnsafePoints ==
    { Point(0, 0, 0), Point(-18000, 0, -14000), Point(-29500, 0, 25000) }

\* Lists of spawn points: the arena's (its first six points are safe, its
\* last six are not), none, unsafe points only, and safe points of the
\* arena's list behind and between unsafe ones.
ResolveLists ==
    { arenaSpawnPoints, << >>,
      << Point(0, 0, 0) >>,
      << Point(0, 0, 0), Point(-18000, 0, -14000) >>,
      << Point(0, 0, 0), arenaSpawnPoints[3], arenaSpawnPoints[1] >>,
      << arenaSpawnPoints[5], Point(0, 0, 0), arenaSpawnPoints[2] >>,
      << Point(-18000, 0, -14000), Point(0, 0, 0), arenaSpawnPoints[4] >>,
      << arenaSpawnPoints[7], arenaSpawnPoints[12] >> }

PreferredPoints ==
    UnsafePoints \cup { arenaSpawnPoints[i] : i \in 1 .. Len(arenaSpawnPoints) }

HInit ==
    /\ clock = 0
    /\ WeaponHarnessOff
    /\ DamageHarnessOff
    /\ game = NewGame
    /\ SpawnHarnessOff

HShot ==
    /\ hcall = NoHelperCall
    /\ \E wallHits \in WallHitLists, remotes \in RemoteLists :
          hcall' = [ op |-> "findShotHit",
                     wallHits |-> wallHits, remotes |-> remotes,
                     result |-> findShotHit(wallHits, remotes) ]
    /\ UNCHANGED <<clock, wvars, dvars, game, scall, gcall, mcall>>

\* arena: what the game's resolveSpawnPoint, which reads the arena's list,
\* returns for the same preferred point.
HResolve ==
    /\ hcall = NoHelperCall
    /\ \E preferred \in PreferredPoints, spawnPoints \in ResolveLists :
          hcall' = [ op |-> "resolveSpawnPoint",
                     preferred |-> preferred, spawnPoints |-> spawnPoints,
                     result |-> resolveSpawnPointFrom(preferred, spawnPoints),
                     arena |-> resolveSpawnPoint(preferred) ]
    /\ UNCHANGED <<clock, wvars, dvars, game, scall, gcall, mcall>>

SpecHelper == HInit /\ [][HShot \/ HResolve]_vars


----------------------------------------------------------------------------
(* Claims about the weapon state machine, checked under SpecWeapon. *)

CallSpec == WEAPONS[wcall.state.weaponId]

\* C1: tryFireWeapon decides in the order reloading, cooldown, empty-mag; a
\* failing call has didFire false and returns its input state; otherwise it
\* answers 'fired', takes exactly one round from the magazine, sets lastShotAt
\* to now and leaves ammoReserve and reloadingUntil alone.
C1_TryFireOrder ==
    wcall.op = "tryFire" =>
        LET s == wcall.state
            n == wcall.now
            failed(why) == /\ wcall.reason = why
                           /\ ~wcall.didFire
                           /\ wcall.next = s
        IN  IF s.reloadingUntil # NULL /\ n < s.reloadingUntil
            THEN failed("reloading")
            ELSE IF n - s.lastShotAt < CallSpec.fireIntervalMs
            THEN failed("cooldown")
            ELSE IF s.ammoInMag = 0
            THEN failed("empty-mag")
            ELSE /\ wcall.reason = "fired"
                 /\ wcall.didFire
                 /\ wcall.next.ammoInMag = s.ammoInMag - 1
                 /\ wcall.next.lastShotAt = n
                 /\ wcall.next.ammoReserve = s.ammoReserve
                 /\ wcall.next.reloadingUntil = s.reloadingUntil
                 /\ wcall.next.weaponId = s.weaponId

\* C1 witness: a call made with the magazine empty and the cooldown still
\* running, which is answered 'cooldown'.
C1_Witness ==
    /\ wcall.op = "tryFire"
    /\ wcall.state.ammoInMag = 0
    /\ wcall.now - wcall.state.lastShotAt < CallSpec.fireIntervalMs
    /\ wcall.reason = "cooldown"

\* C2: after a fire at t1 a tryFire at t2 on the resulting state (rounds left,
\* no reload pending) answers 'cooldown' when t2 - t1 < fireIntervalMs and
\* fires when t2 - t1 >= fireIntervalMs; and over any sequence of calls at
\* non-decreasing times two fires are never less than fireIntervalMs apart.
C2_FireInterval ==
    wcall.op = "tryFire" =>
        /\ ( /\ wcall.state.lastShotAt # NEVER_SHOT
             /\ wcall.state.reloadingUntil = NULL
             /\ wcall.state.ammoInMag > 0 )
           => IF wcall.now - wcall.state.lastShotAt < CallSpec.fireIntervalMs
              THEN ~wcall.didFire /\ wcall.reason = "cooldown"
              ELSE wcall.didFire
        /\ (wcall.didFire /\ whist.shots >= 2)
           => wcall.sinceFired >= CallSpec.fireIntervalMs

\* C2 witness: a new weapon fires a second time exactly one fire interval
\* after its first shot.
C2_Witness ==
    /\ wcall.op = "tryFire"
    /\ wcall.didFire
    /\ whist.start = createWeaponState(wpn.weaponId)
    /\ whist.shots = 2
    /\ wcall.sinceFired = CallSpec.fireIntervalMs

\* C3: on a new weapon state with no reload begun, N fires leave
\* ammoInMag = magSize - N; once it is 0 a tryFire made after the cooldown
\* answers 'empty-mag'; ammoInMag is never negative.
C3_AmmoCountdown ==
    /\ wpn.ammoInMag >= 0
    /\ (whist.start = createWeaponState(wpn.weaponId) /\ ~whist.reloadBegun)
       => wpn.ammoInMag = WEAPONS[wpn.weaponId].magSize - whist.shots
    /\ ( /\ wcall.op = "tryFire"
         /\ wcall.state.ammoInMag = 0
         /\ wcall.state.reloadingUntil = NULL
         /\ wcall.sinceFired >= CallSpec.fireIntervalMs )
       => /\ ~wcall.didFire
          /\ wcall.reason = "empty-mag"
          /\ wcall.next.ammoInMag = 0

\* C3 witness: a new shotgun has fired its whole magazine and the next call,
\* after the cooldown, is answered 'empty-mag'.
C3_Witness ==
    /\ whist.start = createWeaponState("shotgun")
    /\ ~whist.reloadBegun
    /\ whist.shots = WEAPONS["shotgun"].magSize
    /\ wcall.op = "tryFire"
    /\ wcall.reason = "empty-mag"
    /\ wcall.sinceFired >= CallSpec.fireIntervalMs

\* The state of the reload test: 1 round loaded, 20 in reserve.
ReloadTestState(s) == s.ammoInMag = 1 /\ s.ammoReserve = 20

\* C4 as stated: for every weapon kind, from ammoInMag = 1, ammoReserve = 20,
\* beginReload at now then tickReload later than now + reloadMs yields
\* ammoInMag = M, ammoReserve = 20 - (M - 1), reloadingUntil = null.
C4_AsStated ==
    ( /\ wcall.op = "tickReload"
      /\ ReloadTestState(wcall.state)
      /\ wcall.state.reloadingUntil # NULL
      /\ wcall.now > wcall.state.reloadingUntil )
    => /\ wcall.next.ammoInMag = CallSpec.magSize
       /\ wcall.next.ammoReserve = 20 - (CallSpec.magSize - 1)
       /\ wcall.next.reloadingUntil = NULL

\* C4 amended: from ammoInMag = 1, ammoReserve = 20, beginReload at now sets
\* the deadline now + reloadMs; tickReload after the deadline yields
\* ammoInMag = min(M, 21), ammoReserve = 20 - (min(M, 21) - 1),
\* reloadingUntil = null (M for the shotgun and the pistol; 21 and 0 for the
\* assault rifle, whose magazine of 30 the reserve cannot fill); before the
\* deadline isReloading is true and tickReload changes nothing.
C4_ReloadCompletion ==
    /\ ( /\ wcall.op = "beginReload"
         /\ ReloadTestState(wcall.state)
         /\ wcall.state.reloadingUntil = NULL )
       => wcall.next.reloadingUntil = wcall.now + CallSpec.reloadMs
    /\ ( /\ wcall.op = "tickReload"
         /\ ReloadTestState(wcall.state)
         /\ wcall.state.reloadingUntil # NULL )
       => LET loaded == Min(CallSpec.magSize, 21) IN
          /\ wcall.now > wcall.state.reloadingUntil
             => /\ wcall.next.ammoInMag = loaded
                /\ wcall.next.ammoReserve = 20 - (loaded - 1)
                /\ wcall.next.reloadingUntil = NULL
          /\ wcall.now < wcall.state.reloadingUntil
             => /\ isReloading(wcall.state, wcall.now)
                /\ wcall.next = wcall.state

\* C4 witness: the assault rifle's reload from (1, 20) completes after the
\* deadline with 21 rounds loaded and the reserve empty.
C4_Witness ==
    /\ wcall.op = "tickReload"
    /\ wcall.state.weaponId = "assaultRifle"
    /\ ReloadTestState(wcall.state)
    /\ wcall.state.reloadingUntil # NULL
    /\ wcall.now > wcall.state.reloadingUntil
    /\ wcall.next.ammoInMag = 21
    /\ wcall.next.ammoReserve = 0

\* C5: beginReload returns its input state when reloadingUntil is non-null
\* (whatever now is), when the magazine is full or when the reserve is 0;
\* otherwise it sets reloadingUntil to now + reloadMs and changes nothing else.
C5_BeginReload ==
    wcall.op = "beginReload" =>
        LET s == wcall.state IN
        IF \/ s.reloadingUntil # NULL
           \/ s.ammoInMag >= CallSpec.magSize
           \/ s.ammoReserve = 0
        THEN wcall.next = s
        ELSE /\ wcall.next.reloadingUntil = wcall.now + CallSpec.reloadMs
             /\ wcall.next.ammoInMag = s.ammoInMag
             /\ wcall.next.ammoReserve = s.ammoReserve
             /\ wcall.next.lastShotAt = s.lastShotAt
             /\ wcall.next.weaponId = s.weaponId

\* C5 witness: beginReload is called at or after the deadline of a reload
\* that tickReload has not completed yet, and returns its input state.
C5_Witness ==
    /\ wcall.op = "beginReload"
    /\ wcall.state.reloadingUntil # NULL
    /\ wcall.now >= wcall.state.reloadingUntil
    /\ wcall.next = wcall.state

\* C6: tickReload returns its input state when reloadingUntil is null or
\* now < reloadingUntil; from now = reloadingUntil on it moves
\* min(magSize - ammoInMag, ammoReserve) rounds from the reserve to the
\* magazine, clears reloadingUntil and leaves lastShotAt alone.
C6_TickReload ==
    wcall.op = "tickReload" =>
        LET s == wcall.state
            moved == Min(CallSpec.magSize - s.ammoInMag, s.ammoReserve)
        IN  IF s.reloadingUntil = NULL \/ wcall.now < s.reloadingUntil
            THEN wcall.next = s
            ELSE /\ wcall.next.ammoInMag = s.ammoInMag + moved
                 /\ wcall.next.ammoReserve = s.ammoReserve - moved
                 /\ wcall.next.reloadingUntil = NULL
                 /\ wcall.next.lastShotAt = s.lastShotAt
                 /\ wcall.next.weaponId = s.weaponId

\* C6 witness: a reload completes exactly at its deadline with a reserve
\* smaller than the room in the magazine, after the weapon has fired.
C6_Witness ==
    /\ wcall.op = "tickReload"
    /\ wcall.state.reloadingUntil = wcall.now
    /\ wcall.state.ammoReserve < CallSpec.magSize - wcall.state.ammoInMag
    /\ wcall.state.lastShotAt # NEVER_SHOT
    /\ wcall.next.ammoReserve = 0
    /\ wcall.next.reloadingUntil = NULL

----------------------------------------------------------------------------
(* Claims about the local player. *)

\* C7: after any sequence of match start, incoming damage events (carrying
\* whatever damage amount the sender put in them) and respawns, the local
\* player's health and armor both lie in [0, 100].  (SpecPlayer)
C7_HealthArmorRange ==
    game.started =>
        /\ 0 <= game.localHealth /\ game.localHealth <= FULL_HEALTH
        /\ 0 <= game.localArmor /\ game.localArmor <= FULL_ARMOR

----------------------------------------------------------------------------
(* Claims about the damage model. *)

C9_DamageFormula ==
    /\ dcall.op = "applyDamage" =>
        LET pen == dcall.armorPenetration
            block == IF pen >= 100 THEN 0 ELSE IF pen <= 0 THEN 100 ELSE 100 - pen
            spend == Min(dcall.state.armor, dcall.rawDamage * block * 65)
            loss == dcall.rawDamage * 1000000 - spend * 55
        IN  /\ dcall.result.armor = Max(0, dcall.state.armor - spend)
            /\ dcall.result.health = Max(0, dcall.state.health - loss)
            /\ dcall.result.isEliminated <=> dcall.result.health = 0
            /\ ( /\ dcall.state = NewDamageState
                 /\ dcall.rawDamage = 28
                 /\ pen = 57 )
               => /\ MathRound(dcall.state.armor - dcall.result.armor, 1000) = 78
                  /\ MathRound(dcall.result.damageApplied, 100000) = 237
    /\ (ccall.weaponId = "pistol" /\ ccall.distance = 50) => ccall.body = 28

\* C9 witness: the documented scenario: the pistol's body hit at 5 m, 28, is
\* applied to a (100, 100) defender at the pistol's penetration, leaving
\* 92.174 armor and 76.3043 health.
C9_Witness ==
    /\ ccall.weaponId = "pistol"
    /\ ccall.distance = 50
    /\ dcall.op = "applyDamage"
    /\ dcall.state = NewDamageState
    /\ dcall.rawDamage = ccall.body
    /\ dcall.armorPenetration = WEAPONS["pistol"].armorPenetration
    /\ dcall.result.armor = 921740
    /\ dcall.result.health = 76304300
    /\ ~dcall.result.isEliminated

\* C10: for every weapon and distance computeWeaponDamage returns at least 1,
\* the headshot result is at least the non-headshot result, and strictly
\* greater when headshotMultiplier > 1, which holds for all three weapons.
\* (SpecFalloff)
C10_DamageFloorHeadshot ==
    /\ \A id \in WeaponId : WEAPONS[id].headshotMultiplier > 10
    /\ ccall # NoCompute =>
        /\ ccall.body >= 1
        /\ ccall.head >= 1
        /\ ccall.head >= ccall.body
        /\ WEAPONS[ccall.weaponId].headshotMultiplier > 10 => ccall.head > ccall.body

\* C10 witness: a shotgun shot from beyond the range where its falloff
\* reaches the minimum scale: 3 to the body, 6 to the head.
C10_Witness ==
    /\ ccall.weaponId = "shotgun"
    /\ ccall.distance * WEAPONS["shotgun"].falloffPerMeter > 10000
    /\ ccall.body = 3
    /\ ccall.head = 6

----------------------------------------------------------------------------
(* Claims about the spawn selector, checked under SpecSpawn. *)

----------------------------------------------------------------------------
(* Claims about the local player's life. *)

\* The spawn point respawnLocalPlayer takes for a wave: pickSpawnPoint's
\* choice, put through resolveSpawnPoint.
SpawnOfWave(g, wave) ==
    resolveSpawnPoint(
        pickSpawnPoint(g.matchCode, g.localPlayerName, arenaSpawnPoints, wave))

\* C12: the local player is Alive or Dead and nothing else.  Alive becomes
\* Dead only in a step that applies a damage event addressed to the player
\* and leaves health 0; in every step from Dead to Alive health becomes 100,
\* armor 100, the three weapon states become new ones (full magazine, full
\* reserve, no reload pending), the spawn wave grows by exactly 1 and the
\* position becomes the spawn point chosen for the new wave.  (Spec)
C12_AliveDead ==
    [][ /\ game'.localAlive \in BOOLEAN
        /\ (game.localAlive /\ ~game'.localAlive)
           => /\ game.room
              /\ game'.localHealth = 0
              /\ \E event \in DamageEvents :
                    /\ event.targetPeerId = game.localPeerId
                    /\ isWeaponId(event.weaponId)
                    /\ LET result == applyDamage(
                                        [ health |-> game.localHealth,
                                          armor  |-> game.localArmor ],
                                        event.damage,
                                        WEAPONS[event.weaponId].armorPenetration)
                       IN  /\ result.health = 0
                           /\ game'.localArmor = result.armor
        /\ (~game.localAlive /\ game'.localAlive)
           => /\ game'.localHealth = FULL_HEALTH
              /\ game'.localArmor = FULL_ARMOR
              /\ \A id \in WeaponId :
                    /\ game'.weaponStates[id].ammoInMag = WEAPONS[id].magSize
                    /\ game'.weaponStates[id].ammoReserve = WEAPONS[id].reserveAmmo
                    /\ game'.weaponStates[id].reloadingUntil = NULL
              /\ game'.spawnWave = game.spawnWave + 1
              /\ game'.position = SpawnOfWave(game, game.spawnWave + 1)
      ]_vars

\* C12 witness: the player has died and respawned once; pickSpawnPoint chose
\* the ninth or the eighth spawn point for wave 1, neither is safe, and the
\* player stands on the first safe one.
C12_Witness ==
    /\ game.localAlive
    /\ game.localDeaths = 1
    /\ game.spawnWave = 1
    /\ game.localHealth = FULL_HEALTH
    /\ pickSpawnPoint(game.matchCode, game.localPlayerName, arenaSpawnPoints, 1)
           \in { arenaSpawnPoints[8], arenaSpawnPoints[9] }
    /\ game.position = arenaSpawnPoints[1]

\* C13: a damage event changes health and armor only when the player is
\* alive and the event's target is the local peer id; otherwise health,
\* armor, liveness and the respawn deadline stay and no kill record is
\* written.  When it is applied, health and armor are applyDamage's with the
\* armor penetration of the weapon kind the event declares.  (SpecPlayer)
C13_DamageEventFrame ==
    gcall.op = "onDamageEvent" =>
        LET before == gcall.before
            after == gcall.after
            event == gcall.event
            addressed == before.localAlive
                         /\ event.targetPeerId = before.localPeerId
        IN  /\ ~addressed
               => /\ after.localHealth = before.localHealth
                  /\ after.localArmor = before.localArmor
                  /\ after.localAlive = before.localAlive
                  /\ after.respawnAt = before.respawnAt
                  /\ after.killRecords = before.killRecords
            /\ ( /\ addressed
                 /\ isWeaponId(event.weaponId) )
               => LET result == applyDamage(
                                    [ health |-> before.localHealth,
                                      armor  |-> before.localArmor ],
                                    event.damage,
                                    WEAPONS[event.weaponId].armorPenetration)
                  IN  /\ after.localHealth = result.health
                      /\ after.localArmor = result.armor

\* C13 witness: the player is alive and already hurt; an event that would
\* kill is delivered with another peer as its target and changes nothing.
C13_Witness ==
    /\ gcall.op = "onDamageEvent"
    /\ gcall.before.localAlive
    /\ gcall.before.localPeerId = "me"
    /\ gcall.before.localHealth < FULL_HEALTH
    /\ gcall.event.targetPeerId = "other"
    /\ gcall.event.damage = 200
    /\ gcall.after = gcall.before

\* C14: a payload with an unknown weapon kind is never dropped: the weapon
\* kind is taken to be the assault rifle.  A damage event addressed to the
\* live local player with an unknown weapon kind is applied with the assault
\* rifle's armor penetration, and a presence snapshot of a peer not seen
\* before, with an unknown weapon kind or missing coordinates, yields a
\* remote player with the assault rifle at coordinates 0.  (SpecPayload)
C14_UnknownWeaponDefaults ==
    /\ ( /\ gcall.op = "onDamageEvent"
         /\ gcall.before.localAlive
         /\ gcall.event.targetPeerId = gcall.before.localPeerId
         /\ ~isWeaponId(gcall.event.weaponId) )
       => LET result == applyDamage(
                            [ health |-> gcall.before.localHealth,
                              armor  |-> gcall.before.localArmor ],
                            gcall.event.damage,
                            WEAPONS["assaultRifle"].armorPenetration)
          IN  /\ gcall.after.localHealth = result.health
              /\ gcall.after.localArmor = result.armor
    /\ ( /\ gcall.op = "upsertRemotePlayer"
         /\ gcall.known = NoRemote )
       => /\ ~isWeaponId(gcall.peer.weaponId)
             => gcall.remote.weaponId = "assaultRifle"
          /\ Len(gcall.peer.x) = 0 => gcall.remote.x = 0
          /\ Len(gcall.peer.y) = 0 => gcall.remote.y = 0
          /\ Len(gcall.peer.z) = 0 => gcall.remote.z = 0

----------------------------------------------------------------------------
(* Claims about the player's body. *)

\* C15: with a single obstacle whose vertical range overlaps the player's
\* height band (the band the step gives the player: from the new y up to
\* the standing or crouching height, as the input says), from a start
\* position that is not strictly inside the obstacle's footprint inflated by
\* the collision radius, whatever the yaw, the input and the speed, the
\* position stepPlayerMovement returns is not strictly inside that inflated
\* footprint.  (SpecMove)
C15_OutsideFootprint ==
    ( /\ mcall.op = "stepPlayerMovement"
      /\ Len(mcall.obstacles) = 1
      /\ ~InsideInflated(mcall.state.position, mcall.obstacles[1])
      /\ LET playerBottom == mcall.result.position.y
             playerTop == playerBottom
                          + (IF mcall.input.crouch
                             THEN PLAYER_HEIGHT_CROUCHING
                             ELSE PLAYER_HEIGHT_STANDING)
         IN  /\ playerBottom < mcall.obstacles[1].max.y
             /\ playerTop > mcall.obstacles[1].min.y )
    => ~InsideInflated(mcall.result.position, mcall.obstacles[1])

\* C15 witness: the player runs at the wall from 60 mm off its inflated
\* side, the step would carry it inside, and it ends on that side with its
\* speed towards the wall taken away.
C15_Witness ==
    /\ mcall.op = "stepPlayerMovement"
    /\ mcall.obstacles[1].max.y = 2400
    /\ mcall.state.position = Point(600, 0, 0)
    /\ mcall.state.yaw = 270
    /\ mcall.input.moveForward /\ mcall.input.sprint
    /\ mcall.state.velocity.x = 5600
    /\ mcall.result.position.x = mcall.obstacles[1].min.x - PLAYER_RADIUS
    /\ mcall.result.position.z = 0
    /\ mcall.result.velocity.x = 0

\* Along one axis: value lies within the bounds inset by the radius.
WithinInset(value, min, max) ==
    min + PLAYER_RADIUS <= value /\ value <= max - PLAYER_RADIUS

\* C22: for every obstacle set, the horizontal position stepPlayerMovement
\* returns lies within the arena bounds inset by the collision radius:
\* minX + R <= x <= maxX - R and minZ + R <= z <= maxZ - R.  (SpecMove)
C22_WithinInsetBounds ==
    mcall.op = "stepPlayerMovement" =>
        /\ WithinInset(mcall.result.position.x,
                       moveBounds.minX, moveBounds.maxX)
        /\ WithinInset(mcall.result.position.z,
                       moveBounds.minZ, moveBounds.maxZ)

\* C22 as the code has it: the step clamps the integrated position to the
\* inset bounds and resolves the collisions afterwards, so along each axis
\* the returned coordinate lies within the inset bounds or is the side of an
\* obstacle's footprint inflated by the radius onto which the player was
\* pushed.  (SpecMove)
C22_ClampedThenPushed ==
    mcall.op = "stepPlayerMovement" =>
        /\ \/ WithinInset(mcall.result.position.x,
                          moveBounds.minX, moveBounds.maxX)
           \/ \E i \in 1 .. Len(mcall.obstacles) :
                 mcall.result.position.x
                     \in { mcall.obstacles[i].min.x - PLAYER_RADIUS,
                           mcall.obstacles[i].max.x + PLAYER_RADIUS }
        /\ \/ WithinInset(mcall.result.position.z,
                          moveBounds.minZ, moveBounds.maxZ)
           \/ \E i \in 1 .. Len(mcall.obstacles) :
                 mcall.result.position.z
                     \in { mcall.obstacles[i].min.z - PLAYER_RADIUS,
                           mcall.obstacles[i].max.z + PLAYER_RADIUS }

\* C22 witness: a step from the inset east bound with a speed that would
\* carry the player past it, away from every obstacle, ends on the bound.
C22_Witness ==
    /\ mcall.op = "stepPlayerMovement"
    /\ mcall.obstacles[1].max.x = 3000
    /\ mcall.state.position = Point(30660, 0, 1340)
    /\ mcall.state.velocity.x = 5600
    /\ mcall.input = NoInput
    /\ mcall.result.position.x = moveBounds.maxX - PLAYER_RADIUS

----------------------------------------------------------------------------
(* Claims about the respawn timer. *)

\* C16: when the local player dies the respawn deadline becomes the time of
\* death + 4200 ms.  A tick at a time before the deadline leaves the player
\* Dead and a tick at or after it makes the player Alive; nothing but such a
\* tick makes a dead player alive, and it counts one spawn wave, so that the
\* waves counted are the deaths that have been answered: a respawn happens
\* once per death.  With the frames running and the time advancing a dead
\* player is eventually alive again.  (SpecPlayerLive)
C16_RespawnDeadline ==
    /\ [][ /\ (game.localAlive /\ ~game'.localAlive)
              => game'.respawnAt = clock + 4200
           /\ (~game.localAlive /\ Animate)
              => (game'.localAlive <=> clock >= game.respawnAt)
           /\ (~game.localAlive /\ game'.localAlive)
              => /\ Animate
                 /\ clock >= game.respawnAt
                 /\ game'.spawnWave = game.spawnWave + 1
           /\ ~(~game.localAlive /\ game'.localAlive)
              => game'.spawnWave = game.spawnWave
         ]_vars
    /\ [](game.spawnWave = game.localDeaths - (IF game.localAlive THEN 0 ELSE 1))
    /\ (~game.localAlive) ~> game.localAlive

\* C16 witness: the player has died, respawned and died again, and a tick
\* 1 ms before the second deadline (it published the presence at that time)
\* has left the player dead.
C16_Witness ==
    /\ ~game.localAlive
    /\ game.localDeaths = 2
    /\ game.spawnWave = 1
    /\ clock = game.respawnAt - 1
    /\ game.lastPresenceSentAt = clock

----------------------------------------------------------------------------
(* Claims about the fire action. *)

\* The damage of the pellets 1 .. pellet of hits that hit target.
RECURSIVE PelletDamage(_, _, _, _)
PelletDamage(weaponId, hits, target, pellet) ==
    IF pellet = 0
    THEN 0
    ELSE PelletDamage(weaponId, hits, target, pellet - 1)
         + ( IF Len(hits[pellet]) = 1 /\ hits[pellet][1].peerId = target
             THEN computeWeaponDamage(weaponId, hits[pellet][1].distance,
                                      hits[pellet][1].headshot)
             ELSE 0 )

\* C17: a fire action that succeeds publishes exactly one shot event and,
\* for every target, one damage event when a pellet hit the target and none
\* otherwise; the damage of the event is the sum of computeWeaponDamage over
\* the pellets that hit the target and its headshot flag is true exactly
\* when one of them was a headshot.  (SpecFire)
C17_OneShotSummedDamage ==
    (gcall.op = "tryFire" /\ gcall.didFire) =>
        LET weaponId == gcall.before.activeWeapon
            hits == gcall.hits
            damage == gcall.published.damage
        IN  /\ Len(gcall.published.shot) = 1
            /\ \A target \in { "other", "third" } :
                  LET pellets == { pellet \in DOMAIN hits :
                                      /\ Len(hits[pellet]) = 1
                                      /\ hits[pellet][1].peerId = target }
                      events == { i \in DOMAIN damage :
                                     damage[i].targetPeerId = target }
                  IN  /\ Cardinality(events) = (IF pellets = {} THEN 0 ELSE 1)
                      /\ \A i \in events :
                            /\ damage[i].damage
                                   = PelletDamage(weaponId, hits, target, Len(hits))
                            /\ damage[i].headshot
                                   <=> \E pellet \in pellets :
                                          hits[pellet][1].headshot
            /\ \A i \in DOMAIN damage :
                  damage[i].targetPeerId \in { "other", "third" }

----------------------------------------------------------------------------
(* Claims about firing and reloading in the game, checked under Spec. *)

\* The step fires the weapon id: a round leaves its magazine.
Fires(id) ==
    game'.weaponStates[id].ammoInMag = game.weaponStates[id].ammoInMag - 1

\* C18: a tick fires a weapon only when it is the active weapon and is
\* automatic, the fire input is held, the pointer is locked and the player
\* is alive in a joined room; a weapon that is not automatic (shotgun,
\* pistol) fires only in the step of a mouse press, so that its fires are
\* never more than the mouse presses, however long fire is held.  (Spec)
C18_FireTriggers ==
    [][ \A id \in WeaponId :
          /\ (Animate /\ Fires(id))
             => /\ id = game.activeWeapon
                /\ WEAPONS[id].automatic
                /\ game.firing
                /\ game.isPointerLocked
                /\ game.localAlive
                /\ game.room
          /\ (Fires(id) /\ ~WEAPONS[id].automatic)
             => MouseDown
      ]_vars

\* C18 witness: two inputs have been given (the pointer lock and one mouse
\* press) and the assault rifle has fired twice: the second round was fired
\* by a tick, with fire held.
C18_Witness ==
    /\ game.inputs = 2
    /\ game.firing /\ game.isPointerLocked
    /\ game.activeWeapon = "assaultRifle"
    /\ game.weaponStates["assaultRifle"].ammoInMag
           = WEAPONS["assaultRifle"].magSize - 2

\* C19: every tick applies tickReload to all three weapon states, also while
\* the player is dead (after it, the active weapon of a live player may fire
\* or begin a reload, and a respawn makes the three states anew), and
\* switching the active weapon changes none of the three weapon states: a
\* reload begun on one weapon completes after the player has switched to
\* another.  (Spec)
C19_BackgroundReload ==
    [][ /\ Animate
           => \A id \in WeaponId :
                 LET ticked == tickReload(game.weaponStates[id], clock) IN
                 \/ game'.weaponStates[id] = ticked
                 \/ /\ ~game.localAlive /\ game'.localAlive
                    /\ game'.weaponStates[id] = createWeaponState(id)
                 \/ /\ game.localAlive
                    /\ id = game.activeWeapon
                    /\ game'.weaponStates[id]
                           \in { tryFireWeapon(ticked, clock).next,
                                 beginReload(ticked, clock) }
        /\ KeyDigit => game'.weaponStates = game.weaponStates
      ]_vars

\* C19 witness: the pistol is the active weapon and the assault rifle, which
\* has fired one round and begun a reload at once, has its magazine full
\* again from the reserve and no reload pending, at the reload's deadline.
C19_Witness ==
    /\ game.activeWeapon = "pistol"
    /\ game.localDeaths = 0
    /\ clock = game.weaponStates["assaultRifle"].lastShotAt
               + WEAPONS["assaultRifle"].reloadMs
    /\ game.weaponStates["assaultRifle"].ammoInMag = WEAPONS["assaultRifle"].magSize
    /\ game.weaponStates["assaultRifle"].ammoReserve
           = WEAPONS["assaultRifle"].reserveAmmo - 1
    /\ game.weaponStates["assaultRifle"].reloadingUntil = NULL

----------------------------------------------------------------------------
(* Claims about the reloading report, checked under SpecWeapon. *)

\* C20 as stated: at every time the weapon is reported as reloading (by
\* isReloading, and by tryFireWeapon failing with "reloading") if and only
\* if reloadingUntil is non-null.
C20_AsStated ==
    /\ isReloading(wpn, clock) <=> wpn.reloadingUntil # NULL
    /\ wcall.op = "tryFire"
       => ( (~wcall.didFire /\ wcall.reason = "reloading")
            <=> wcall.state.reloadingUntil # NULL )

\* C20: at every time now the weapon is reported as reloading (by
\* isReloading, and by tryFireWeapon failing with "reloading") if and only
\* if reloadingUntil is non-null and now is before it; with reloadingUntil
\* null the weapon is never reported as reloading.
C20_ReportedReloading ==
    /\ isReloading(wpn, clock)
       <=> (wpn.reloadingUntil # NULL /\ clock < wpn.reloadingUntil)
    /\ wpn.reloadingUntil = NULL => ~isReloading(wpn, clock)
    /\ wcall.op = "tryFire"
       => /\ (~wcall.didFire /\ wcall.reason = "reloading")
             <=> ( /\ wcall.state.reloadingUntil # NULL
                   /\ wcall.now < wcall.state.reloadingUntil )
          /\ wcall.state.reloadingUntil = NULL => wcall.reason # "reloading"

\* C20 witness: tryFireWeapon is called at or after the deadline of a reload
\* that tickReload has not completed, and fires; reloadingUntil is still
\* non-null and the weapon is not reported as reloading.
C20_Witness ==
    /\ wcall.op = "tryFire"
    /\ wcall.didFire
    /\ wcall.state.reloadingUntil # NULL
    /\ wcall.now >= wcall.state.reloadingUntil
    /\ wpn.reloadingUntil # NULL
    /\ ~isReloading(wpn, clock)

----------------------------------------------------------------------------
(* Claims about the local player's team. *)

\* TEAM_NAMES[abs(h) % 2] for h = hashString(`${matchCode}:${playerName}`).
TeamOfHash(matchCode, playerName) ==
    TEAM_NAMES[AbsRemainder(hashString(matchCode \o << 58 >> \o playerName),
                            Len(TEAM_NAMES)) + 1]

\* C23: the team startMatch assigns is TEAM_NAMES[abs(h) % 2] with h the
\* hashString of 'matchCode:playerName' (pickTeam's own loop computes the
\* same signed 32-bit hash), and once the match is started no step (death,
\* respawn, damage event, weapon switch, tick) changes the team.  (Spec)
C23_TeamFromHash ==
    [][ /\ game'.started =>
            game'.localTeam = TeamOfHash(game'.matchCode, game'.localPlayerName)
        /\ game.started => game'.localTeam = game.localTeam ]_vars

\* C23 witness: the player of the match "A" whose name is "Operator" is on
\* the second team (the hash is negative and odd), has died once and has
\* respawned and switched to another weapon.
C23_Witness ==
    /\ game.started
    /\ game.matchCode = << 65 >>
    /\ game.localTeam = "terror"
    /\ game.localDeaths = 1
    /\ game.localAlive
    /\ game.activeWeapon # "assaultRifle"

----------------------------------------------------------------------------
(* Claims about the hit scan, checked under SpecHelper. *)

\* The nearest of a remote player's two sphere intersections, or infinity.
NearestSphereHit(remote) ==
    Min(OrElse(remote.headHit, POSITIVE_INFINITY),
        OrElse(remote.bodyHit, POSITIVE_INFINITY))

\* Some obstacle's intersection distance is strictly smaller than distance.
ObstacleCloser(wallHits, distance) ==
    \E i \in 1 .. Len(wallHits) :
        Len(wallHits[i]) = 1 /\ wallHits[i][1] < distance

\* The living remotes the ray meets with no obstacle strictly closer.
UnblockedTargets ==
    { i \in 1 .. Len(hcall.remotes) :
        /\ hcall.remotes[i].alive
        /\ NearestSphereHit(hcall.remotes[i]) < POSITIVE_INFINITY
        /\ ~ObstacleCloser(hcall.wallHits, NearestSphereHit(hcall.remotes[i])) }

\* C21: findShotHit never reports a remote player when some obstacle's
\* intersection distance is strictly smaller than the player's nearest sphere
\* intersection distance; the reported player is alive and is the unblocked
\* living player with the smallest intersection distance, and a player is
\* reported whenever there is one.
C21_ObstacleBlocks ==
    hcall.op = "findShotHit" =>
        IF Len(hcall.result) = 0
        THEN UnblockedTargets = { }
        ELSE \E i \in UnblockedTargets :
                /\ hcall.remotes[i].peerId = hcall.result[1].peerId
                /\ hcall.result[1].distance = NearestSphereHit(hcall.remotes[i])
                /\ \A j \in UnblockedTargets :
                      NearestSphereHit(hcall.remotes[i])
                          <= NearestSphereHit(hcall.remotes[j])

----------------------------------------------------------------------------
(* Claims about the spawn point's safety, checked under SpecHelper. *)

\* The places of the call's list whose point is safe.
SafePlaces ==
    { i \in 1 .. Len(hcall.spawnPoints) : isSpawnSafe(hcall.spawnPoints[i]) }

\* C24: resolveSpawnPoint returns the preferred point when it is safe;
\* otherwise the first safe point of the spawn list, in the list's order;
\* only when no point of the list is safe the (unsafe) preferred point.  So
\* the result is safe whenever at least one point of the list is safe.  The
\* game's resolveSpawnPoint is this function on the arena's list.
C24_FirstSafePoint ==
    hcall.op = "resolveSpawnPoint" =>
        /\ isSpawnSafe(hcall.preferred) => hcall.result = hcall.preferred
        /\ (~isSpawnSafe(hcall.preferred) /\ SafePlaces # { }) =>
              \E i \in SafePlaces :
                  /\ hcall.result = hcall.spawnPoints[i]
                  /\ \A j \in 1 .. (i - 1) : j \notin SafePlaces
        /\ (~isSpawnSafe(hcall.preferred) /\ SafePlaces = { }) =>
              hcall.result = hcall.preferred
        /\ SafePlaces # { } => isSpawnSafe(hcall.result)
        /\ hcall.spawnPoints = arenaSpawnPoints => hcall.arena = hcall.result

\* C24 witness: the preferred point is not safe, the list's first point is
\* not safe either, and the list's second point, which is safe, is returned.
C24_Witness ==
    /\ hcall.op = "resolveSpawnPoint"
    /\ ~isSpawnSafe(hcall.preferred)
    /\ Len(hcall.spawnPoints) = 3
    /\ ~isSpawnSafe(hcall.spawnPoints[1])
    /\ isSpawnSafe(hcall.spawnPoints[2])
    /\ hcall.result = hcall.spawnPoints[2]

----------------------------------------------------------------------------
(* Claims about the presence publications.  A publication is a step that  *)
(* changes lastPresenceSentAt: it sets it to the time of the request,     *)
(* which is above the time of the publication before.                     *)

----------------------------------------------------------------------------
(* Claims about the order of a tick, checked under Spec. *)

\* The weapon's reload deadline has passed at now and tickReload has not
\* completed the reload.
ReloadOverdue(state, now) ==
    state.reloadingUntil # NULL /\ now >= state.reloadingUntil

\* A tick leaves no weapon with an overdue reload, and when the active
\* weapon's reload is overdue at the tick, the tick's fire attempt reads the
\* weapon as tickReload has left it.
TickFiresAfterReload ==
    Animate =>
        /\ \A id \in WeaponId : ~ReloadOverdue(game'.weaponStates[id], clock)
        /\ LET active == game.activeWeapon
               ticked == tickReload(game.weaponStates[active], clock)
           IN  ( /\ ReloadOverdue(game.weaponStates[active], clock)
                 /\ game.localAlive /\ game.room
                 /\ game.firing /\ game.isPointerLocked
                 /\ WEAPONS[active].automatic )
               => game'.weaponStates[active] = tryFireWeapon(ticked, clock).next

\* A press of the left mouse button that reaches tryFireWeapon.
MouseFireAttempt ==
    MouseDown /\ game.isPointerLocked /\ game.localAlive /\ game.room

\* C26: a tick ticks the reload of every weapon before it resolves the fire,
\* so no fire attempt reads a weapon state whose reload deadline has passed
\* at the attempt's time and whose reload tickReload has not completed.
C26_NoOverdueReloadAtFire ==
    [][ /\ TickFiresAfterReload
        /\ MouseFireAttempt =>
              ~ReloadOverdue(game.weaponStates[game.activeWeapon], clock) ]_vars

\* C26 as the code has it: within a tick the reloads of all weapons are
\* ticked before the fire is resolved, so the tick's fire attempt never reads
\* an overdue reload (a fire attempt of the mouse button, made between two
\* ticks, may).
C26_TickOrder ==
    [][ TickFiresAfterReload ]_vars

\* C26 witness: one shot, a reload begun at once, the clock advanced to the
\* reload's deadline, and a tick with the button held: the tick has completed
\* the reload (the reserve has given one round) and has fired from the full
\* magazine at the time of the deadline.
C26_Witness ==
    /\ game.localAlive /\ game.firing
    /\ game.inputs = 3
    /\ game.advances = 1
    /\ game.activeWeapon = "assaultRifle"
    /\ game.weaponStates["assaultRifle"].reloadingUntil = NULL
    /\ game.weaponStates["assaultRifle"].ammoInMag
           = WEAPONS["assaultRifle"].magSize - 1
    /\ game.weaponStates["assaultRifle"].ammoReserve
           = WEAPONS["assaultRifle"].reserveAmmo - 1
    /\ game.weaponStates["assaultRifle"].lastShotAt = clock

----------------------------------------------------------------------------
(* Claims about the ammunition, checked under SpecWeapon. *)

\* The rounds a weapon holds: those in the magazine and those in reserve.
TotalAmmo(state) == state.ammoInMag + state.ammoReserve

\* The bounds of the two counts, and what a reload under way implies.
AmmoInBounds(state) ==
    /\ 0 <= state.ammoInMag
    /\ state.ammoInMag <= WEAPONS[state.weaponId].magSize
    /\ 0 <= state.ammoReserve
    /\ state.ammoReserve <= WEAPONS[state.weaponId].reserveAmmo
    /\ state.reloadingUntil # NULL =>
          /\ state.ammoInMag < WEAPONS[state.weaponId].magSize
          /\ state.ammoReserve > 0

\* C27: after any sequence of tryFireWeapon, beginReload and tickReload,
\* 0 <= ammoInMag <= magSize and 0 <= ammoReserve <= reserveAmmo; the total
\* ammoInMag + ammoReserve never increases, decreases by exactly 1 on each
\* successful fire and is unchanged by beginReload and tickReload; while
\* reloadingUntil is non-null, ammoInMag < magSize and ammoReserve > 0.
C27_AmmoAccounting ==
    [][ /\ AmmoInBounds(wpn) /\ AmmoInBounds(wpn')
        /\ TotalAmmo(wpn') <= TotalAmmo(wpn)
        /\ (wcall'.op = "tryFire" /\ wcall'.didFire) <=>
              TotalAmmo(wpn') = TotalAmmo(wpn) - 1
        /\ wcall'.op \in { "beginReload", "tickReload" } =>
              TotalAmmo(wpn') = TotalAmmo(wpn) ]_vars

\* C27 witness: tickReload has completed a reload of an empty magazine with
\* 3 rounds in reserve: the 3 rounds are in the magazine, none is in reserve.
C27_Witness ==
    /\ wcall.op = "tickReload"
    /\ wcall.state.reloadingUntil # NULL
    /\ wcall.state.ammoInMag = 0
    /\ wcall.state.ammoReserve = 3
    /\ wpn.reloadingUntil = NULL
    /\ wpn.ammoInMag = 3
    /\ wpn.ammoReserve = 0

----------------------------------------------------------------------------
(* Claims about the local player's life, checked under SpecUntrusted and  *)
(* SpecPlayer.                                                            *)

\* value > 0 as the code's numbers have it: false of NaN.
IsPositive(value) == value # NaN /\ value > 0

\* C28: in every reachable state of a started match the local player is
\* alive if and only if its health is greater than 0, and while the player
\* is dead a respawn deadline is set.  (SpecUntrusted)
C28_AliveIffHealth ==
    game.started =>
        /\ game.localAlive <=> IsPositive(game.localHealth)
        /\ ~game.localAlive => game.respawnAt # NULL

\* C29: over any sequence of damage events, ticks and respawns, a kill
\* record is emitted in the steps in which the local player goes from Alive
\* to Dead, one in each, and in no other step; a damage event that arrives
\* while the player is dead emits no kill record and leaves the respawn
\* deadline (and all of the player's state) as it is.  (SpecPlayer)
C29_OneKillRecordPerDeath ==
    [][ /\ game'.killRecords =
              game.killRecords
                  + (IF game.localAlive /\ ~game'.localAlive THEN 1 ELSE 0)
        /\ (RecordedDamageEvent /\ ~game.localAlive) =>
              /\ game'.killRecords = game.killRecords
              /\ game'.respawnAt = game.respawnAt
              /\ game' = game ]_vars

\* C29 witness: the player has died once and one kill record is out; since
\* the death the clock has advanced, and a damage event of 200
\* points addressed to the dead player has arrived and has left the respawn
\* deadline 4200 ms after the death.
C29_Witness ==
    /\ gcall.op = "onDamageEvent"
    /\ gcall.event.targetPeerId = "me"
    /\ gcall.event.damage = 200
    /\ isWeaponId(gcall.event.weaponId)
    /\ ~gcall.before.localAlive
    /\ game.localPeerId = "me"
    /\ game.localDeaths = 1
    /\ game.killRecords = 1
    /\ ~game.localAlive
    /\ game.respawnAt < gcall.now + 4200

----------------------------------------------------------------------------
(* Claims about automatic fire, checked under SpecAutoLive. *)

\* An automatic weapon is active, the fire button is held, the pointer is
\* locked and the player is alive in a joined room.
AutoFiring ==
    /\ game.localAlive /\ game.room
    /\ game.firing /\ game.isPointerLocked
    /\ WEAPONS[game.activeWeapon].automatic

\* The rounds of the active weapon; a fire, and nothing else, takes one.
ActiveAmmo == TotalAmmo(game.weaponStates[game.activeWeapon])

\* C30: with an automatic weapon active, fire held, the pointer locked and
\* the player alive in a joined room, the frames running and the time
\* advancing: as long as the weapon holds a round, in the magazine or in
\* reserve, it eventually fires again (or the fire is no longer held as
\* said).  With an empty magazine and a reserve that is not empty the fire
\* needs the reload begun and completed.  So firing stops for good only
\* with magazine and reserve at 0.
C30_FiresUntilSpent ==
    \A n \in 1 .. MaxAutoAmmo :
        (AutoFiring /\ ActiveAmmo = n) ~> (~AutoFiring \/ ActiveAmmo < n)

\* C30 witness: from an empty magazine, with no key pressed, the tick has
\* begun the reload, and the tick at the reload's deadline has completed it
\* (the reserve is in the magazine) and has fired.
C30_Witness ==
    /\ AutoFiring
    /\ game.inputs = 0
    /\ clock = PAGE_LOADED_AT + WEAPONS["assaultRifle"].reloadMs
    /\ game.weaponStates["assaultRifle"].reloadingUntil = NULL
    /\ game.weaponStates["assaultRifle"].ammoReserve = 0
    /\ game.weaponStates["assaultRifle"].ammoInMag = MaxAutoAmmo - 2
    /\ game.weaponStates["assaultRifle"].lastShotAt = clock

====
